---- MODULE Spec2Model ----
(***************************************************************************)
(* perfkit: pprof decoding and metrics extraction (internal/pprof),        *)
(* the k6 summary extractor (internal/k6), the ingest and compare handlers *)
(* of the server, and the comparison view of the web UI.                   *)
(*                                                                         *)
(* Numbers that the program holds as float64 quotients are kept exact, as  *)
(* fractions [num, den] with den > 0; float rounding is not modelled.      *)
(***************************************************************************)
EXTENDS Integers, Sequences, FiniteSets, TLC

\* ------------------------------------------------------------------------
\* Bounds of the model
\* ------------------------------------------------------------------------

\* largest value a sample carries in one column
MaxVal == 1
\* largest number of samples of a decoded profile
MaxSamples == 2
\* largest number of sample-type descriptors of a profile without samples
MaxDescr == 2

\* ------------------------------------------------------------------------
\* General helpers
\* ------------------------------------------------------------------------

Range(s) == {s[i] : i \in 1..Len(s)}

SeqsUpTo(S, n) == UNION {[1..k -> S] : k \in 0..n}

Perms(S) == {s \in [1..Cardinality(S) -> S] : \A i, j \in 1..Cardinality(S) : i # j => s[i] # s[j]}

RECURSIVE ConcatAll(_)
ConcatAll(ss) == IF ss = <<>> THEN <<>> ELSE Head(ss) \o ConcatAll(Tail(ss))

Take(s, n) == IF n <= 0 THEN <<>> ELSE SubSeq(s, 1, IF n < Len(s) THEN n ELSE Len(s))

Min(a, b) == IF a < b THEN a ELSE b

\* a float64 quotient num/den, kept exact
Frac(n, d) == [num |-> n, den |-> d]

FracZero == Frac(0, 1)

Abs(x) == IF x < 0 THEN -x ELSE x

RECURSIVE GCD(_, _)
GCD(a, b) == IF b = 0 THEN a ELSE GCD(b, a % b)

\* the quotient num / den in lowest terms, with a positive denominator
Quotient(num, den) ==
    LET g == GCD(Abs(num), Abs(den))
        s == IF den < 0 THEN -1 ELSE 1
    IN  [num |-> s * (num \div g), den |-> s * (den \div g)]

\* ------------------------------------------------------------------------
\* models.ProfileType
\* ------------------------------------------------------------------------

ProfileTypeCPU == "cpu"
ProfileTypeHeap == "heap"
ProfileTypeGoroutine == "goroutine"
ProfileTypeBlock == "block"
ProfileTypeMutex == "mutex"
ProfileTypeAllocs == "allocs"
ProfileTypeThreadCreate == "threadcreate"
ProfileTypeGC == "gc"
ProfileTypeK6 == "k6"

\* ------------------------------------------------------------------------
\* Decoded profiles (github.com/google/pprof/profile.Profile, as read by
\* internal/pprof)
\* ------------------------------------------------------------------------

\* function names are strings, kept as sequences of characters
NameF == <<"f">>
NameG == <<"g">>

NilFunction == [Nil |-> TRUE]

Function(name) == [Name |-> name]

Line(fn) == [Function |-> fn]

Location(lines) == [Line |-> lines]

ValueType(t, u) == [Type |-> t, Unit |-> u]

\* the call stacks of the samples
Stacks ==
    { <<>>,
      \* a recursive function: f called by f
      <<Location(<<Line(Function(NameF))>>), Location(<<Line(Function(NameF))>>)>>,
      <<Location(<<Line(Function(NameF))>>), Location(<<Line(Function(NameG))>>)>>,
      \* one location with two lines, the second without function
      <<Location(<<Line(Function(NameG)), Line(NilFunction)>>)>> }

\* the sample-type lists of the profiles that carry samples
SampleTypeLists ==
    { <<ValueType("samples", "count"), ValueType("cpu", "nanoseconds")>>,
      <<ValueType("alloc_objects", "count"), ValueType("alloc_space", "bytes")>>,
      <<ValueType("inuse_space", "bytes")>>,
      <<ValueType("contentions", "count"), ValueType("delay", "nanoseconds")>>,
      <<ValueType("delay", "nanoseconds")>>,
      <<ValueType("block", "count"), ValueType("delay", "nanoseconds")>>,
      <<ValueType("goroutine", "count")>> }

DescrTypes ==
    { "cpu", "samples", "alloc_objects", "alloc_space", "inuse_objects", "inuse_space",
      "contentions", "delay", "block", "goroutine", "threadcreate" }

DescrUnits == {"nanoseconds", "count", "bytes"}

Descriptors == {ValueType(t, u) : t \in DescrTypes, u \in DescrUnits}

\* a sample of a decoded profile has one value per sample type
SamplesOf(st) == [Value : [1..Len(st) -> 0..MaxVal], Location : Stacks]

Profiles ==
    UNION {[SampleType : {st}, Sample : SeqsUpTo(SamplesOf(st), MaxSamples), DurationNanos : {0}] :
           st \in SampleTypeLists}
    \cup [SampleType : SeqsUpTo(Descriptors, MaxDescr), Sample : {<<>>}, DurationNanos : {0}]

EmptyProfile == [SampleType |-> <<>>, Sample |-> <<>>, DurationNanos |-> 0]

\* an uploaded byte buffer: bytes that profile.Parse decodes to a profile,
\* or bytes that it rejects
Buffers == [wellFormed : {TRUE}, profile : Profiles] \cup {[wellFormed |-> FALSE, profile |-> EmptyProfile]}

\* ------------------------------------------------------------------------
\* internal/pprof/parse.go
\* ------------------------------------------------------------------------

\* number of values the contributor lists keep (the n of every topFunctions
\* call and the cut of the goroutine stacks)
TopN == 10

\* the function names of a sample's stack, one per (location, line) whose
\* Function is not nil, in the order of the two nested loops
LineNames(loc) ==
    ConcatAll([j \in 1..Len(loc.Line) |->
        IF loc.Line[j].Function # NilFunction THEN <<loc.Line[j].Function.Name>> ELSE <<>>])

StackNames(sample) ==
    ConcatAll([i \in 1..Len(sample.Location) |-> LineNames(sample.Location[i])])

\* one entry per execution of funcValues[name] += value
Credit(name, value) == [name |-> name, value |-> value]

\* one entry per function of the stack, however often it occurs
CreditsOfStackOnce(sample, value) ==
    LET names == StackNames(sample)
        firsts == {i \in 1..Len(names) : \A j \in 1..(i - 1) : names[j] # names[i]}
    IN  ConcatAll([i \in 1..Len(names) |-> IF i \in firsts THEN <<Credit(names[i], value)>> ELSE <<>>])

\* the credits of the two nested loops over a sample's locations and lines
CreditsOfStack(sample, value) ==
    LET names == StackNames(sample) IN [i \in 1..Len(names) |-> Credit(names[i], value)]

RECURSIVE SumCredits(_, _)
SumCredits(credits, name) ==
    IF credits = <<>> THEN 0
    ELSE (IF Head(credits).name = name THEN Head(credits).value ELSE 0)
         + SumCredits(Tail(credits), name)

\* the map after all the += of a pass
FuncValuesOf(credits) ==
    [name \in {credits[i].name : i \in 1..Len(credits)} |-> SumCredits(credits, name)]

\* the keys of the map in the order of their first insertion
RECURSIVE DiscoveryOrder(_)
DiscoveryOrder(credits) ==
    IF credits = <<>> THEN <<>>
    ELSE LET rest == DiscoveryOrder(SubSeq(credits, 1, Len(credits) - 1))
             last == credits[Len(credits)].name
         IN  IF last \in Range(rest) THEN rest ELSE Append(rest, last)

RECURSIVE SumSeq(_)
SumSeq(s) == IF s = <<>> THEN 0 ELSE Head(s) + SumSeq(Tail(s))

\* sort.Slice comparison of topFunctions
kvLess(a, b) == a.value > b.value

\* `for k, v := range funcValues` appends in an unspecified order and
\* sort.Slice is not stable: every ordering of the entries that is sorted
\* by the comparison is a possible content of `sorted`
SortedSlices(funcValues) ==
    LET entries == {Credit(k, funcValues[k]) : k \in DOMAIN funcValues}
    IN  {s \in Perms(entries) : \A i, j \in 1..Len(s) : i < j => ~kvLess(s[j], s[i])}

\* the share of the total, not multiplied by 100
shareOf(value, total) == IF total > 0 THEN Frac(value, total) ELSE FracZero

\* pct of topFunctions
percentOf(value, total) == IF total > 0 THEN Frac(value * 100, total) ELSE FracZero

FunctionSample(kv, total) == [Name |-> kv.name, Value |-> kv.value, Percent |-> percentOf(kv.value, total)]

\* topCount with the loop condition i <= n
topCountInclusive(n, len) == IF n < 0 THEN 0 ELSE Min(n + 1, len)

\* number of entries the loop `for i := 0; i < n && i < len(sorted); i++` appends
topCount(n, len) == IF n <= 0 THEN 0 ELSE Min(n, len)

\* the results topFunctions can return
topFunctions(funcValues, total, n) ==
    {[i \in 1..topCount(n, Len(s)) |-> FunctionSample(s[i], total)] : s \in SortedSlices(funcValues)}

detectMatch(st) ==
    CASE st.Type \in {"cpu", "samples"} ->
            IF st.Unit = "nanoseconds" \/ st.Unit = "count" THEN ProfileTypeCPU ELSE ""
      [] st.Type \in {"alloc_objects", "alloc_space", "inuse_objects", "inuse_space"} -> ProfileTypeHeap
      [] st.Type \in {"contentions", "delay"} -> ProfileTypeMutex
      [] st.Type = "block" -> ProfileTypeBlock
      [] st.Type = "goroutine" -> ProfileTypeGoroutine
      [] OTHER -> ""

\* detectFrom with the scan started at the last descriptor
detectFromLast(sts) ==
    LET matching == {i \in 1..Len(sts) : detectMatch(sts[i]) # ""}
    IN  IF matching = {} THEN ProfileTypeCPU
        ELSE detectMatch(sts[CHOOSE i \in matching : \A j \in matching : j <= i])

\* a detector that takes an undetected profile for a heap profile
undetectedAsHeap == ProfileTypeHeap

\* the kind detectProfileType returns after the loop
undetected == ProfileTypeCPU

RECURSIVE detectFrom(_)
detectFrom(sts) ==
    IF sts = <<>> THEN undetected
    ELSE IF detectMatch(Head(sts)) # "" THEN detectMatch(Head(sts))
    ELSE detectFrom(Tail(sts))

detectProfileType(p) == detectFrom(p.SampleType)

\* the value of column idx (0-based, as in the source) of a sample
ValueAt(sample, idx) == sample.Value[idx + 1]

\* a sample the CPU pass does not skip
cpuCounted(sample) == ~(Len(sample.Value) = 0 \/ Len(sample.Location) = 0)

cpuCredits(p) ==
    ConcatAll([i \in 1..Len(p.Sample) |->
        IF cpuCounted(p.Sample[i])
        THEN CreditsOfStack(p.Sample[i], ValueAt(p.Sample[i], 0))
        ELSE <<>>])

extractCPUMetrics(p) ==
    LET totalValue == SumSeq([i \in 1..Len(p.Sample) |->
                          IF cpuCounted(p.Sample[i]) THEN ValueAt(p.Sample[i], 0) ELSE 0])
    IN  {[variant |-> ProfileTypeCPU,
          SampleCount |-> Len(p.Sample),
          TotalCPUTimeNS |-> totalValue,
          TopFunctions |-> top] : top \in topFunctions(FuncValuesOf(cpuCredits(p)), totalValue, TopN)}

\* the index (0-based) the loop over p.SampleType leaves for a type: the
\* last position of the type, or -1
RECURSIVE indexOfType(_, _, _)
indexOfType(sts, t, i) ==
    IF i = 0 THEN -1
    ELSE IF sts[i].Type = t THEN i - 1
    ELSE indexOfType(sts, t, i - 1)

\* the sum the guarded additions of a column leave in a heap total
columnTotal(p, idx) ==
    SumSeq([i \in 1..Len(p.Sample) |->
        IF idx >= 0 /\ idx < Len(p.Sample[i].Value) THEN ValueAt(p.Sample[i], idx) ELSE 0])

\* the result of a run that panicked (index out of range)
Panicked == [variant |-> "panic"]

allocSpaceIndex(p) == indexOfType(p.SampleType, "alloc_space", Len(p.SampleType))

\* sample.Value[allocSpaceIdx] is read without a length check
heapOutOfRange(p) ==
    \E i \in 1..Len(p.Sample) :
        /\ StackNames(p.Sample[i]) # <<>>
        /\ allocSpaceIndex(p) >= 0
        /\ allocSpaceIndex(p) >= Len(p.Sample[i].Value)

heapCredits(p) ==
    ConcatAll([i \in 1..Len(p.Sample) |->
        IF allocSpaceIndex(p) >= 0
        THEN CreditsOfStack(p.Sample[i], ValueAt(p.Sample[i], allocSpaceIndex(p)))
        ELSE <<>>])

extractHeapMetrics(p) ==
    LET allocObjIdx == indexOfType(p.SampleType, "alloc_objects", Len(p.SampleType))
        inuseSpaceIdx == indexOfType(p.SampleType, "inuse_space", Len(p.SampleType))
        inuseObjIdx == indexOfType(p.SampleType, "inuse_objects", Len(p.SampleType))
        AllocSize == columnTotal(p, allocSpaceIndex(p))
    IN  IF heapOutOfRange(p) THEN {Panicked}
        ELSE {[variant |-> ProfileTypeHeap,
               AllocSize |-> AllocSize,
               AllocObjects |-> columnTotal(p, allocObjIdx),
               InuseSize |-> columnTotal(p, inuseSpaceIdx),
               InuseObjects |-> columnTotal(p, inuseObjIdx),
               TopAllocators |-> top] : top \in topFunctions(FuncValuesOf(heapCredits(p)), AllocSize, TopN)}

\* the pass shared by the mutex and the block extractor: count, time and map
contentionCount(p) ==
    SumSeq([i \in 1..Len(p.Sample) |->
        IF Len(p.Sample[i].Value) >= 2 THEN ValueAt(p.Sample[i], 0) ELSE 0])

contentionTime(p) ==
    SumSeq([i \in 1..Len(p.Sample) |->
        IF Len(p.Sample[i].Value) >= 2 THEN ValueAt(p.Sample[i], 1) ELSE 0])

contentionCredits(p) ==
    ConcatAll([i \in 1..Len(p.Sample) |->
        IF Len(p.Sample[i].Value) >= 2
        THEN CreditsOfStack(p.Sample[i], ValueAt(p.Sample[i], 1))
        ELSE <<>>])

extractMutexMetrics(p) ==
    {[variant |-> ProfileTypeMutex,
      ContentionCount |-> contentionCount(p),
      ContentionTimeNS |-> contentionTime(p),
      TopContenders |-> top] :
        top \in topFunctions(FuncValuesOf(contentionCredits(p)), contentionTime(p), TopN)}

extractBlockMetrics(p) ==
    {[variant |-> ProfileTypeBlock,
      BlockingCount |-> contentionCount(p),
      BlockingTimeNS |-> contentionTime(p),
      TopBlockers |-> top] :
        top \in topFunctions(FuncValuesOf(contentionCredits(p)), contentionTime(p), TopN)}

NewLine == "\n"

RECURSIVE splitFrom(_, _, _)
splitFrom(s, current, result) ==
    IF s = <<>> THEN (IF current # <<>> THEN Append(result, current) ELSE result)
    ELSE IF Head(s) = NewLine
         THEN (IF current # <<>>
               THEN splitFrom(Tail(s), <<>>, Append(result, current))
               ELSE splitFrom(Tail(s), <<>>, result))
         ELSE splitFrom(Tail(s), Append(current, Head(s)), result)

splitStack(s) == splitFrom(s, <<>>, <<>>)

\* the map key of a sample: every function name followed by a newline
stackKey(sample) ==
    LET stack == StackNames(sample) IN ConcatAll([i \in 1..Len(stack) |-> stack[i] \o <<NewLine>>])

\* sort.Slice comparison of extractGoroutineMetrics
stackLess(a, b) == a.value > b.value

SortedStacks(stackCounts) ==
    LET entries == {Credit(k, stackCounts[k]) : k \in DOMAIN stackCounts}
    IN  {s \in Perms(entries) : \A i, j \in 1..Len(s) : i < j => ~stackLess(s[j], s[i])}

\* one entry per execution of stackCounts[key]++
stackCredits(p) == [i \in 1..Len(p.Sample) |-> Credit(stackKey(p.Sample[i]), 1)]

extractGoroutineMetrics(p) ==
    {[variant |-> ProfileTypeGoroutine,
      GoroutineCount |-> Len(p.Sample),
      TopStacks |-> [i \in 1..Min(TopN, Len(s)) |->
                        [Count |-> s[i].value, Stack |-> splitStack(s[i].name)]]] :
        s \in SortedStacks(FuncValuesOf(stackCredits(p)))}

\* the error result of Parse
ParseError == [err |-> "parse profile"]

\* the results Parse can return for a byte buffer
Parse(data) ==
    IF ~data.wellFormed THEN {ParseError}
    ELSE
    LET p == data.profile
        Type == detectProfileType(p)
        metrics == CASE Type = ProfileTypeCPU -> extractCPUMetrics(p)
                     [] Type = ProfileTypeHeap -> extractHeapMetrics(p)
                     [] Type = ProfileTypeMutex -> extractMutexMetrics(p)
                     [] Type = ProfileTypeBlock -> extractBlockMetrics(p)
                     [] Type = ProfileTypeGoroutine -> extractGoroutineMetrics(p)
        TotalValue == SumSeq([i \in 1..Len(p.Sample) |->
                          IF Len(p.Sample[i].Value) > 0 THEN ValueAt(p.Sample[i], 0) ELSE 0])
    IN  {IF m = Panicked THEN [err |-> "panic"]
         ELSE [err |-> "",
               Type |-> Type,
               DurationNS |-> p.DurationNanos,
               TotalSamples |-> Len(p.Sample),
               TotalValue |-> TotalValue,
               Metrics |-> m] : m \in metrics}

\* ------------------------------------------------------------------------
\* internal/ui/static/app.js: the comparison view
\* ------------------------------------------------------------------------

\* a metric value that is undefined or null
Undefined == [defined |-> FALSE]

\* a metric value that is a number
Number(n) == [defined |-> TRUE, n |-> n]

\* toFixed1 with the decimal cut off instead of rounded
toFixed1Truncated(x) == {(10 * x.num) \div x.den}

\* x.toFixed(1), in tenths: a tenth nearest to x. When x lies exactly between
\* two tenths, the digit depends on the binary float that stands for x, so
\* both neighbours are possible
toFixed1(x) ==
    LET q == (10 * x.num) \div x.den
    IN  {t \in {q - 1, q, q + 1} : 2 * Abs(t * x.den - 10 * x.num) <= x.den}

\* (diff / oldVal) * 100
percentChange(diff, oldVal) ==
    LET r == Quotient(diff, oldVal)
    IN  Quotient(100 * r.num, r.den)

\* the string metric.format(value): the formatter's name and its argument
Formatted(format, value) == [format |-> format, of |-> value]

\* the table of getMetricsForType
metricsConfig(profileType) ==
    CASE profileType = "cpu" ->
            <<[label |-> "CPU Time", key |-> "total_cpu_time_ns", format |-> "formatDuration", lowerIsBetter |-> TRUE],
              [label |-> "Samples", key |-> "sample_count", format |-> "formatNumber", lowerIsBetter |-> FALSE]>>
      [] profileType = "heap" ->
            <<[label |-> "Alloc Size", key |-> "alloc_size", format |-> "formatBytes", lowerIsBetter |-> TRUE],
              [label |-> "Alloc Objects", key |-> "alloc_objects", format |-> "formatNumber", lowerIsBetter |-> TRUE],
              [label |-> "Inuse Size", key |-> "inuse_size", format |-> "formatBytes", lowerIsBetter |-> TRUE],
              [label |-> "Inuse Objects", key |-> "inuse_objects", format |-> "formatNumber", lowerIsBetter |-> TRUE]>>
      [] profileType = "mutex" ->
            <<[label |-> "Contention Time", key |-> "contention_time_ns", format |-> "formatDuration", lowerIsBetter |-> TRUE],
              [label |-> "Contentions", key |-> "contention_count", format |-> "formatNumber", lowerIsBetter |-> TRUE]>>
      [] profileType = "block" ->
            <<[label |-> "Blocking Time", key |-> "blocking_time_ns", format |-> "formatDuration", lowerIsBetter |-> TRUE],
              [label |-> "Block Events", key |-> "blocking_count", format |-> "formatNumber", lowerIsBetter |-> TRUE]>>
      [] profileType = "goroutine" ->
            <<[label |-> "Goroutines", key |-> "goroutine_count", format |-> "formatNumber", lowerIsBetter |-> TRUE]>>
      [] profileType = "gc" ->
            <<[label |-> "Total Pause", key |-> "pause_time_total_ns", format |-> "formatDuration", lowerIsBetter |-> TRUE],
              [label |-> "Pause Count", key |-> "pause_count", format |-> "formatNumber", lowerIsBetter |-> FALSE],
              [label |-> "Heap Goal", key |-> "heap_goal", format |-> "formatBytes", lowerIsBetter |-> FALSE]>>
      [] profileType = "k6" ->
            <<[label |-> "P50", key |-> "p50_ms", format |-> "ms", lowerIsBetter |-> TRUE],
              [label |-> "P95", key |-> "p95_ms", format |-> "ms", lowerIsBetter |-> TRUE],
              [label |-> "P99", key |-> "p99_ms", format |-> "ms", lowerIsBetter |-> TRUE],
              [label |-> "RPS", key |-> "rps", format |-> "fixed1", lowerIsBetter |-> FALSE],
              [label |-> "Error Rate", key |-> "error_rate", format |-> "percent", lowerIsBetter |-> TRUE]>>
      [] OTHER -> <<>>

getMetricsForType(profileType) == metricsConfig(profileType)

\* getValue with 0 for an absent key
getValueOrZero(metric, metrics) ==
    IF metric.key \in DOMAIN metrics THEN metrics[metric.key] ELSE Number(0)

\* metric.getValue(metrics): metrics[m.key], undefined when the key is absent
getValue(metric, metrics) ==
    IF metric.key \in DOMAIN metrics THEN metrics[metric.key] ELSE Undefined

\* the threshold above which the delta text also shows the difference
DiffShownAbove == 1000000

\* the test for no change taken to be diff < 0
diffIsNegative(diff) == diff < 0

\* if (diff === 0)
diffIsZero(diff) == diff = 0

\* the results calculateDelta can return: text and class, and the local diff
calculateDelta(oldVal, newVal, metric) ==
    IF ~oldVal.defined \/ ~newVal.defined
    THEN {[text |-> [kind |-> "dash"], class |-> ""]}
    ELSE
    LET diff == newVal.n - oldVal.n
        isIncrease == diff > 0
        isImproved == IF metric.lowerIsBetter THEN ~isIncrease ELSE isIncrease
        pcts == IF oldVal.n # 0
                THEN {[inf |-> FALSE, tenths |-> t] : t \in toFixed1(percentChange(diff, oldVal.n))}
                ELSE {[inf |-> TRUE]}
    IN  IF diffIsZero(diff)
        THEN {[text |-> [kind |-> "zero"], class |-> "delta-neutral", diff |-> diff]}
        ELSE {[text |-> [kind |-> "change",
                         plus |-> isIncrease,
                         pct |-> pct,
                         amount |-> IF newVal.n > DiffShownAbove
                                    THEN Formatted(metric.format, diff)
                                    ELSE Formatted("", 0)],
               class |-> IF isImproved THEN "delta-improved" ELSE "delta-regressed",
               diff |-> diff] : pct \in pcts}

\* profiles.sort((a, b) => new Date(a.created_at) - new Date(b.created_at)):
\* Array.prototype.sort is stable, so equal times keep their order
insertByCreatedAt(sorted, p) ==
    LET k == Cardinality({i \in DOMAIN sorted : sorted[i].created_at <= p.created_at})
    IN  SubSeq(sorted, 1, k) \o <<p>> \o SubSeq(sorted, k + 1, Len(sorted))

RECURSIVE sortByCreatedAt(_)
sortByCreatedAt(profiles) ==
    IF profiles = <<>> THEN <<>>
    ELSE insertByCreatedAt(sortByCreatedAt(SubSeq(profiles, 1, Len(profiles) - 1)),
                           profiles[Len(profiles)])

\* prev of a row: null for the first row
NoProfile == [none |-> TRUE]

\* prev taken to be the first record of the comparison
prevOfFirst(profiles, i) == IF i > 1 THEN profiles[1] ELSE NoProfile

\* const prev = i > 0 ? profiles[i - 1] : null (rows are counted from 1 here)
prevOf(profiles, i) == IF i > 1 THEN profiles[i - 1] ELSE NoProfile

\* the delta of a cell of the first row: nothing is rendered
NoDelta == [class |-> "no delta"]

\* the cells one metric of row i can be rendered as
cellsOf(profiles, i, metric) ==
    LET p == profiles[i]
        prev == prevOf(profiles, i)
        val == getValue(metric, p.metrics)
        deltas == IF prev # NoProfile
                  THEN calculateDelta(getValue(metric, prev.metrics), val, metric)
                  ELSE {NoDelta}
    IN  {[label |-> metric.label, value |-> Formatted(metric.format, val), delta |-> d] :
            d \in deltas}

\* the sequences whose k-th element is drawn from the k-th set
RECURSIVE Choices(_)
Choices(sets) ==
    IF sets = <<>> THEN {<<>>}
    ELSE {Append(c, x) : c \in Choices(SubSeq(sets, 1, Len(sets) - 1)), x \in sets[Len(sets)]}

\* the rows profile i can be rendered as: one cell for every metric
rowsOf(profiles, i, metrics) ==
    {[id |-> profiles[i].id, cells |-> c] :
        c \in Choices([j \in DOMAIN metrics |-> cellsOf(profiles, i, metrics[j])])}

\* the contents renderTableView and renderTimelineView can produce: both loop
\* over the profiles and the metrics of profiles[0].profile_type
renderView(view, profiles) ==
    LET metrics == getMetricsForType(profiles[1].profile_type)
    IN  {[view |-> view, rows |-> r] :
            r \in Choices([i \in DOMAIN profiles |-> rowsOf(profiles, i, metrics)])}

renderTableView(profiles) == renderView("table", profiles)

renderTimelineView(profiles) == renderView("timeline", profiles)

\* the empty state renderCompare shows for no profiles
NoProfilesToCompare == [view |-> "empty", rows |-> <<>>]

\* ------------------------------------------------------------------------
\* internal/k6: Parse of a k6 summary (capture.go, from line 310)
\* ------------------------------------------------------------------------

\* a JSON number, held as an exact fraction, and a JSON value of another type
JNumber(num, den) == [isNumber |-> TRUE, f |-> Quotient(num, den)]

JString == [isNumber |-> FALSE, f |-> FracZero]

\* a K6Metric: its values map, nil when the document has none
K6Metric(values) == [nilValues |-> FALSE, Values |-> values]

K6MetricNoValues == [nilValues |-> TRUE, Values |-> <<>>]

\* v, ok := vals[key].(float64)
isFloat64(vals, key) == key \in DOMAIN vals /\ vals[key].isNumber

\* int64(v) and int(v) of a float64 that is not negative
toInt(f) == f.num \div f.den

\* a record that starts with one virtual user and one request per second
StartedK6Metrics ==
    [P50 |-> FracZero, P95 |-> FracZero, P99 |-> FracZero, Min |-> FracZero,
     Max |-> FracZero, Mean |-> FracZero, RPS |-> Quotient(1, 1), TotalRequests |-> 0,
     FailedRequests |-> 0, VUs |-> 1, VUsMax |-> 0, ErrorRate |-> FracZero,
     DurationMS |-> 0]

\* &models.K6Metrics{}
ZeroK6Metrics ==
    [P50 |-> FracZero, P95 |-> FracZero, P99 |-> FracZero, Min |-> FracZero,
     Max |-> FracZero, Mean |-> FracZero, RPS |-> FracZero, TotalRequests |-> 0,
     FailedRequests |-> 0, VUs |-> 0, VUsMax |-> 0, ErrorRate |-> FracZero,
     DurationMS |-> 0]

\* the values map of a metric that is present with values, else the empty map
valuesOf(summary, name) ==
    IF name \in DOMAIN summary.Metrics /\ ~summary.Metrics[name].nilValues
    THEN summary.Metrics[name].Values
    ELSE <<>>

\* a field read from a number of a values map, left alone otherwise
floatField(vals, key, old) == IF isFloat64(vals, key) THEN vals[key].f ELSE old

intField(vals, key, old) == IF isFloat64(vals, key) THEN toInt(vals[key].f) ELSE old

\* } else if metric, ok := summary.Metrics["checks"]; ok {
checksConsultedElse(summary) ==
    "http_req_failed" \notin DOMAIN summary.Metrics /\ "checks" \in DOMAIN summary.Metrics

\* the error rate of the checks branch, old when the branch sets none
checksErrorRate(vals, old) ==
    IF isFloat64(vals, "passes")
    THEN IF isFloat64(vals, "fails")
         THEN LET passes == vals["passes"].f
                  fails == vals["fails"].f
                  total == Quotient(passes.num * fails.den + fails.num * passes.den,
                                    passes.den * fails.den)
              IN  IF total.num > 0
                  THEN Quotient(fails.num * total.den, fails.den * total.num)
                  ELSE old
         ELSE old
    ELSE IF isFloat64(vals, "rate")
         THEN Quotient(vals["rate"].f.den - vals["rate"].f.num, vals["rate"].f.den)
         ELSE old

\* the error rate and failed-request count of lines 407-436
errorRateOf(summary) ==
    LET failed == valuesOf(summary, "http_req_failed")
    IN  IF "http_req_failed" \in DOMAIN summary.Metrics
        THEN [ErrorRate |-> floatField(failed, "rate", FracZero),
              FailedRequests |-> intField(failed, "count", 0)]
        ELSE IF checksConsultedElse(summary)
        THEN [ErrorRate |-> checksErrorRate(valuesOf(summary, "checks"), FracZero),
              FailedRequests |-> 0]
        ELSE [ErrorRate |-> FracZero, FailedRequests |-> 0]

K6ParseError == [err |-> "parse k6 json"]

\* json.Unmarshal(data, &summary) fails on bytes that are not JSON, and on
\* JSON whose values do not fit the types of K6Summary
jsonUnmarshalFails(data) == ~data.wellFormed \/ ~data.typed

\* k6.Parse(data)
K6Parse(data) ==
    IF jsonUnmarshalFails(data) THEN K6ParseError
    ELSE
    LET summary == data.summary
        duration == valuesOf(summary, "http_req_duration")
        reqs == valuesOf(summary, "http_reqs")
        vus == valuesOf(summary, "vus")
        vusMax == valuesOf(summary, "vus_max")
        errors == errorRateOf(summary)
        z == ZeroK6Metrics
        durationMS == toInt(summary.Root.Duration)
    IN  [err |-> "",
         DurationMS |-> durationMS,
         Metrics |->
            [P50 |-> floatField(duration, "p(50)", z.P50),
             P95 |-> floatField(duration, "p(95)", z.P95),
             P99 |-> floatField(duration, "p(99)", z.P99),
             Min |-> floatField(duration, "min", z.Min),
             Max |-> floatField(duration, "max", z.Max),
             Mean |-> floatField(duration, "avg", z.Mean),
             RPS |-> floatField(reqs, "rate", z.RPS),
             TotalRequests |-> intField(reqs, "count", z.TotalRequests),
             FailedRequests |-> errors.FailedRequests,
             VUs |-> intField(vus, "value", z.VUs),
             VUsMax |-> intField(vusMax, "value", z.VUsMax),
             ErrorRate |-> errors.ErrorRate,
             DurationMS |-> durationMS]]

\* ------------------------------------------------------------------------
\* State
\* ------------------------------------------------------------------------

VARIABLES
    \* a byte buffer handed to pprof.Parse, and what two runs of Parse on it
    \* returned
    buf, run1, run2,
    \* a call of topFunctions: its arguments funcValues, total and n, whether
    \* it has returned, and its result
    tfMap, tfTotal, tfN, tfCalled, tfOut,
    \* the profiles table of the store, in insertion order, and the last
    \* request the server handled together with its response
    store, resp,
    \* a call of calculateDelta: its arguments and its result
    dOld, dNew, dMetric, dOut,
    \* the comparison view: the response of /api/profiles/compare, the array
    \* renderCompare holds, whether the view toggle listens, and the content
    vResponse, vProfiles, vListener, vContent,
    \* a call of k6.Parse: its input bytes and what it returned
    kData, kOut,
    \* a call of an extractor: the profile it is given and what it returned
    exProfile, exOut,
    \* the request the mux of Server.Start served last
    req,
    \* a run of runCapture: its options, where it stands, its round counter,
    \* the index of the profile type captureRound is at, whether the context
    \* is cancelled, whether a tick waits in ticker.C, and how many calls of
    \* captureRound were made and how many returned true
    cmd, pc, round, pt, ctxDone, tickerC, roundsCalled, roundsCompleted,
    step, liveAtCheck, results, observed,
    \* two ingest requests handled in parallel: the backing arrays of the
    \* slices, the slice cfg.DefaultTags and the tags config.Load read, each
    \* handler's position and locals, and the rows SaveProfile has written
    arrays, cfgDefaultTags, loadedTags, handlers, savedTags,
    \* the dashboard: the selection object, the profile rows of the page with
    \* their checkboxes, the state of the Compare button, and the
    \* number of change listeners on the profiles container
    selection, pageRows, compareBtn, listeners

parseVars == <<buf, run1, run2>>

topVars == <<tfMap, tfTotal, tfN, tfCalled, tfOut>>

serverVars == <<store, resp>>

deltaVars == <<dOld, dNew, dMetric, dOut>>

viewVars == <<vResponse, vProfiles, vListener, vContent>>

k6Vars == <<kData, kOut>>

extractVars == <<exProfile, exOut>>

muxVars == <<req>>

captureVars == <<cmd, pc, round, pt, ctxDone, tickerC, roundsCalled, roundsCompleted,
                 step, liveAtCheck, results, observed>>

tagVars == <<arrays, cfgDefaultTags, loadedTags, handlers, savedTags>>

selVars == <<selection, pageRows, compareBtn, listeners>>

vars == <<parseVars, topVars, serverVars, deltaVars, viewVars, k6Vars, extractVars, muxVars, captureVars, tagVars, selVars>>

\* lockedType: null
Null == "null"

\* the selection object as the script creates it
EmptySelection == [profiles |-> <<>>, lockedType |-> Null]

\* the state of an element the script has not set since the page's template
\* was cloned
FromTemplate == "template"

\* btn.disabled as the script sets it
Disabled == "disabled"

Enabled == "enabled"

\* the dashboard is not open
IdleSelect ==
    /\ selection = EmptySelection
    /\ pageRows = <<>>
    /\ compareBtn = FromTemplate
    /\ listeners = 0

\* a slice header: backing array, length and capacity
Slice(array, len, cap) == [array |-> array, len |-> len, cap |-> cap]

\* no request is being handled
IdleTags ==
    /\ arrays = <<>>
    /\ cfgDefaultTags = Slice(0, 0, 0)
    /\ loadedTags = <<>>
    /\ handlers = <<>>
    /\ savedTags = <<>>

\* runCapture is not running
NoCommand == [Interval |-> 0, Count |-> 0]

IdleCapture ==
    /\ cmd = NoCommand
    /\ pc = "idle"
    /\ round = 0
    /\ pt = 0
    /\ ctxDone = FALSE
    /\ tickerC = FALSE
    /\ roundsCalled = 0
    /\ roundsCompleted = 0
    /\ step = "check"
    /\ liveAtCheck = TRUE
    /\ results = <<>>
    /\ observed = FALSE

\* the request before any request is served
NoRequest == [method |-> "", path |-> <<>>]

\* the mux has served no request
IdleMux == req = NoRequest

\* the result before an extractor is called
NotExtracted == [variant |-> "not extracted"]

\* no call of an extractor is under way
IdleExtract ==
    /\ exProfile = EmptyProfile
    /\ exOut = NotExtracted

\* bytes that are not JSON
MalformedJSON == [wellFormed |-> FALSE, typed |-> FALSE]

\* the result before k6.Parse is called
K6NotParsed == [err |-> "not parsed"]

\* no call of k6.Parse is under way
IdleK6 ==
    /\ kData = MalformedJSON
    /\ kOut = K6NotParsed

\* the content before renderCompare runs
NotRendered == [view |-> "none", rows |-> <<>>]

\* no comparison view is open
IdleView ==
    /\ vResponse = <<>>
    /\ vProfiles = <<>>
    /\ vListener = FALSE
    /\ vContent = NotRendered

\* the result before calculateDelta is called
NotCalled == [class |-> "not called"]

\* no call of calculateDelta is under way
IdleDelta ==
    /\ dOld = Undefined
    /\ dNew = Undefined
    /\ dMetric = [lowerIsBetter |-> TRUE]
    /\ dOut = NotCalled

NotRun == [err |-> "not run"]

\* no buffer is being parsed
IdleParse ==
    /\ buf = [wellFormed |-> FALSE, profile |-> EmptyProfile]
    /\ run1 = NotRun
    /\ run2 = NotRun

\* the response before any request
NoResponse == [op |-> "none"]

\* a server with an empty store that has handled no request
IdleServer ==
    /\ store = <<>>
    /\ resp = NoResponse

\* no call of topFunctions is under way
IdleTop ==
    /\ tfMap = <<>>
    /\ tfTotal = 0
    /\ tfN = 0
    /\ tfCalled = FALSE
    /\ tfOut = <<>>

\* ------------------------------------------------------------------------
\* pprof.Parse on a byte buffer, twice
\* ------------------------------------------------------------------------

InitParse ==
    /\ buf \in Buffers
    /\ run1 = NotRun
    /\ run2 = NotRun
    /\ IdleTop
    /\ IdleServer
    /\ IdleDelta
    /\ IdleView
    /\ IdleK6
    /\ IdleExtract
    /\ IdleMux
    /\ IdleCapture
    /\ IdleTags
    /\ IdleSelect

\* pprof.Parse(buf)
ParseOnce ==
    /\ run1 = NotRun
    /\ run1' \in Parse(buf)
    /\ UNCHANGED <<buf, run2, topVars, serverVars, deltaVars, viewVars, k6Vars, extractVars, muxVars, captureVars, tagVars, selVars>>

\* pprof.Parse(buf) again, on the same bytes
ParseAgain ==
    /\ run1 # NotRun
    /\ run2 = NotRun
    /\ run2' \in Parse(buf)
    /\ UNCHANGED <<buf, run1, topVars, serverVars, deltaVars, viewVars, k6Vars, extractVars, muxVars, captureVars, tagVars, selVars>>

NextParse == ParseOnce \/ ParseAgain

SpecParse == InitParse /\ [][NextParse]_vars

\* ------------------------------------------------------------------------
\* topFunctions on a map, a total and an n
\* ------------------------------------------------------------------------

\* largest value of a map entry and of the total
MaxMapVal == 2
\* largest n
MaxN == 3

NameH == <<"h">>

MapKeys == {NameF, NameG, NameH}

FuncValueMaps == UNION {[keys -> -1..MaxMapVal] : keys \in SUBSET MapKeys}

InitTop ==
    /\ tfMap \in FuncValueMaps
    /\ tfTotal \in -1..MaxMapVal
    /\ tfN \in -1..MaxN
    /\ tfCalled = FALSE
    /\ tfOut = <<>>
    /\ IdleParse
    /\ IdleServer
    /\ IdleDelta
    /\ IdleView
    /\ IdleK6
    /\ IdleExtract
    /\ IdleMux
    /\ IdleCapture
    /\ IdleTags
    /\ IdleSelect

\* topFunctions(tfMap, tfTotal, tfN)
CallTopFunctions ==
    /\ ~tfCalled
    /\ tfOut' \in topFunctions(tfMap, tfTotal, tfN)
    /\ tfCalled' = TRUE
    /\ UNCHANGED <<tfMap, tfTotal, tfN, parseVars, serverVars, deltaVars, viewVars, k6Vars, extractVars, muxVars, captureVars, tagVars, selVars>>

NextTop == CallTopFunctions

SpecTop == InitTop /\ [][NextTop]_vars

\* ------------------------------------------------------------------------
\* The server: POST /api/pprof/ingest and GET /api/profiles/compare
\* ------------------------------------------------------------------------

\* largest number of rows of the profiles table
MaxStored == 2
\* largest number of comma-separated parts of the ids parameter
MaxIds == 3

\* models.ProfileType.IsValid: the type is one of the closed enumeration
IsValid(t) ==
    t \in {ProfileTypeCPU, ProfileTypeHeap, ProfileTypeGoroutine, ProfileTypeBlock, ProfileTypeMutex,
           ProfileTypeAllocs, ProfileTypeThreadCreate, ProfileTypeGC, ProfileTypeK6}

\* s.cfg.DefaultTags
DefaultTags == <<"production">>

\* the bodies of the ingest requests: one profile without samples per
\* detected kind, and bytes that do not decode
IngestBodies ==
    {[wellFormed |-> TRUE, profile |-> [SampleType |-> st, Sample |-> <<>>, DurationNanos |-> 0]] :
        st \in {<<ValueType("samples", "count"), ValueType("cpu", "nanoseconds")>>,
                <<ValueType("alloc_objects", "count"), ValueType("alloc_space", "bytes")>>,
                <<ValueType("contentions", "count"), ValueType("delay", "nanoseconds")>>,
                <<ValueType("block", "count"), ValueType("delay", "nanoseconds")>>,
                <<ValueType("goroutine", "count")>>}}
    \cup {[wellFormed |-> FALSE, profile |-> EmptyProfile]}

\* the values of the `type` query parameter ("" when it is not given)
TypeParams == {"", ProfileTypeCPU, ProfileTypeHeap, ProfileTypeAllocs, "flame"}

\* the values of the `cumulative` query parameter
CumulativeParams == {"", "true"}

\* the values of the repeated `tag` query parameter
TagParams == {<<>>, <<"nightly">>}

\* the row handlePprofIngest builds; the id (a fresh UUID) and the creation
\* time are the position of the row in the table
NewProfile(id, body, parsed, profileType, cumulative, tags) ==
    [ID |-> id,
     CreatedAt |-> id,
     ProfileType |-> profileType,
     RawData |-> body,
     DurationNS |-> parsed.DurationNS,
     Metrics |-> parsed.Metrics,
     Tags |-> DefaultTags \o tags,
     IsCumulative |-> (cumulative = "true")]

\* the response of http.Error
ErrorResponse(op, status, message) == [op |-> op, status |-> status, message |-> message]

\* handlePprofIngest for a request with the given body and query parameters;
\* saved tells whether SaveProfile succeeds
HandlePprofIngest(body, typeParam, cumulative, tags, saved) ==
    \E parsed \in Parse(body) :
        LET profileType == IF typeParam = "" THEN parsed.Type ELSE typeParam
            id == Len(store) + 1
        IN  IF parsed.err = "parse profile"
            THEN /\ resp' = ErrorResponse("ingest", 400, "Failed to parse pprof")
                 /\ UNCHANGED store
            ELSE IF parsed.err = "panic"
            THEN /\ resp' = ErrorResponse("ingest", 500, "panic")
                 /\ UNCHANGED store
            ELSE IF ~IsValid(profileType)
            THEN /\ resp' = ErrorResponse("ingest", 400, "Invalid profile type")
                 /\ UNCHANGED store
            ELSE IF ~saved
            THEN /\ resp' = ErrorResponse("ingest", 500, "Failed to save profile")
                 /\ UNCHANGED store
            ELSE /\ store' = Append(store, NewProfile(id, body, parsed, profileType, cumulative, tags))
                 /\ resp' = [op |-> "ingest", status |-> 200, id |-> id]

PprofIngest ==
    /\ Len(store) < MaxStored
    /\ \E body \in IngestBodies, typeParam \in TypeParams, cumulative \in CumulativeParams,
          tags \in TagParams, saved \in BOOLEAN :
           HandlePprofIngest(body, typeParam, cumulative, tags, saved)
    /\ UNCHANGED <<parseVars, topVars, deltaVars, viewVars, k6Vars, extractVars, muxVars, captureVars, tagVars, selVars>>

InitIngest ==
    /\ IdleServer
    /\ IdleParse
    /\ IdleTop
    /\ IdleDelta
    /\ IdleView
    /\ IdleK6
    /\ IdleExtract
    /\ IdleMux
    /\ IdleCapture
    /\ IdleTags
    /\ IdleSelect

NextIngest == PprofIngest

SpecIngest == InitIngest /\ [][NextIngest]_vars

\* ------------------------------------------------------------------------
\* GET /api/profiles/compare on a filled store
\* ------------------------------------------------------------------------

\* largest number of rows of the table a comparison reads
MaxCompared == 3

\* a part of the ids parameter that is empty after strings.TrimSpace
BlankID == 0

\* the ids parameter, split at its commas, each part trimmed: a row id, an id
\* of no row (MaxCompared + 1) or a blank part; the empty parameter is the
\* single blank part
IdsParams == UNION {[1..k -> 0..(MaxCompared + 1)] : k \in 1..MaxIds}

\* profile.RawData = nil
NoRawData == [nil |-> TRUE]

\* Store.GetProfile finds a row with the id
HasProfile(table, id) == \E i \in 1..Len(table) : table[i].ID = id

\* the row Store.GetProfile returns: a copy of the stored row
GetProfile(table, id) == table[CHOOSE i \in 1..Len(table) : table[i].ID = id]

\* the type check of the loop, at index idx (0-based) of ids, checking the
\* second id only
typeMismatchSecondOnly(idx, profileType, expectedType) == idx = 1 /\ profileType # expectedType

\* the type check of the loop, at index idx (0-based) of ids: the first
\* index sets expectedType, every other index is compared with it
typeMismatch(idx, profileType, expectedType) == idx # 0 /\ profileType # expectedType

\* the loop of handleCompareProfiles from position i (1-based) of ids on
RECURSIVE compareLoop(_, _, _, _, _)
compareLoop(table, ids, i, expectedType, profiles) ==
    IF i > Len(ids) THEN [op |-> "compare", ids |-> ids, status |-> 200, profiles |-> profiles]
    ELSE IF ids[i] = BlankID THEN compareLoop(table, ids, i + 1, expectedType, profiles)
    ELSE IF ~HasProfile(table, ids[i])
    THEN [op |-> "compare", ids |-> ids, status |-> 404, message |-> "Profile not found"]
    ELSE LET profile == GetProfile(table, ids[i])
         IN  IF typeMismatch(i - 1, profile.ProfileType, expectedType)
             THEN [op |-> "compare", ids |-> ids, status |-> 400,
                   message |-> "All profiles must be of the same type"]
             ELSE compareLoop(table, ids, i + 1,
                              IF i - 1 = 0 THEN profile.ProfileType ELSE expectedType,
                              Append(profiles, [profile EXCEPT !.RawData = NoRawData]))

\* the response of handleCompareProfiles for an ids parameter
handleCompareProfiles(table, ids) ==
    IF ids = <<BlankID>>
    THEN [op |-> "compare", ids |-> ids, status |-> 400, message |-> "Missing ids parameter"]
    ELSE IF Len(ids) < 2
    THEN [op |-> "compare", ids |-> ids, status |-> 400,
          message |-> "At least 2 profile IDs required for comparison"]
    ELSE compareLoop(table, ids, 1, "", <<>>)

\* the bodies whose ingested rows fill the table
ComparedBodies ==
    {[wellFormed |-> TRUE, profile |-> [SampleType |-> st, Sample |-> <<>>, DurationNanos |-> 0]] :
        st \in {<<ValueType("samples", "count"), ValueType("cpu", "nanoseconds")>>,
                <<ValueType("alloc_objects", "count"), ValueType("alloc_space", "bytes")>>,
                <<ValueType("goroutine", "count")>>}}

\* the tables that ingests of these bodies, without query parameters, leave
IngestedTables ==
    {[i \in 1..Len(bodies) |->
        NewProfile(i, bodies[i], CHOOSE parsed \in Parse(bodies[i]) : TRUE,
                   detectProfileType(bodies[i].profile), "", <<>>)] :
        bodies \in SeqsUpTo(ComparedBodies, MaxCompared)}

InitCompare ==
    /\ store \in IngestedTables
    /\ resp = NoResponse
    /\ IdleParse
    /\ IdleTop
    /\ IdleDelta
    /\ IdleView
    /\ IdleK6
    /\ IdleExtract
    /\ IdleMux
    /\ IdleCapture
    /\ IdleTags
    /\ IdleSelect

\* one GET /api/profiles/compare?ids=...
CompareProfiles ==
    /\ resp = NoResponse
    /\ \E ids \in IdsParams : resp' = handleCompareProfiles(store, ids)
    /\ UNCHANGED <<store, parseVars, topVars, deltaVars, viewVars, k6Vars, extractVars, muxVars, captureVars, tagVars, selVars>>

NextCompare == CompareProfiles

SpecCompare == InitCompare /\ [][NextCompare]_vars

\* ------------------------------------------------------------------------
\* calculateDelta on a previous value, a current value and a metric
\* ------------------------------------------------------------------------

\* the numbers the compared metrics take: counts, and times in nanoseconds
SmallNumbers == {0, 3, 4, 80, 100, 120, 2000, 2001}

LargeNumbers == {900000000, 1000000000, 1200000000}

ValuesOf(numbers) == {Undefined} \cup {Number(n) : n \in numbers}

\* the kinds that have a table in getMetricsForType
TableKinds == {"cpu", "heap", "mutex", "block", "goroutine", "gc", "k6"}

InitDelta ==
    /\ \E numbers \in {SmallNumbers, LargeNumbers} :
           /\ dOld \in ValuesOf(numbers)
           /\ dNew \in ValuesOf(numbers)
    /\ dMetric \in UNION {Range(getMetricsForType(kind)) : kind \in TableKinds}
    /\ dOut = NotCalled
    /\ IdleParse
    /\ IdleTop
    /\ IdleServer
    /\ IdleView
    /\ IdleK6
    /\ IdleExtract
    /\ IdleMux
    /\ IdleCapture
    /\ IdleTags
    /\ IdleSelect

\* calculateDelta(dOld, dNew, dMetric)
CallCalculateDelta ==
    /\ dOut = NotCalled
    /\ dOut' \in calculateDelta(dOld, dNew, dMetric)
    /\ UNCHANGED <<dOld, dNew, dMetric, parseVars, topVars, serverVars, viewVars, k6Vars, extractVars, muxVars, captureVars, tagVars, selVars>>

NextDelta == CallCalculateDelta

SpecDelta == InitDelta /\ [][NextDelta]_vars

\* ------------------------------------------------------------------------
\* renderCompare on the response of /api/profiles/compare, and the view toggle
\* ------------------------------------------------------------------------

\* the largest number of profiles in a response
MaxProfiles == 3

\* the capture times of the profiles
CreatedAts == {1, 2, 3}

\* the metrics of the CPU profiles compared
ViewMetrics ==
    { [sample_count |-> Number(100)],
      [total_cpu_time_ns |-> Number(900000000), sample_count |-> Number(100)],
      [total_cpu_time_ns |-> Number(1000000000), sample_count |-> Number(120)],
      [total_cpu_time_ns |-> Number(1200000000), sample_count |-> Number(100)] }

\* a response: n profiles of one kind, in the order of the ids requested
Response(n, times, metrics) ==
    [i \in 1..n |-> [id |-> i, profile_type |-> ProfileTypeCPU,
                     created_at |-> times[i], metrics |-> metrics[i]]]

InitView ==
    /\ \E n \in 0..MaxProfiles :
           \E times \in [1..n -> CreatedAts], metrics \in [1..n -> ViewMetrics] :
               vResponse = Response(n, times, metrics)
    /\ vProfiles = vResponse
    /\ vListener = FALSE
    /\ vContent = NotRendered
    /\ IdleParse
    /\ IdleTop
    /\ IdleServer
    /\ IdleDelta
    /\ IdleK6
    /\ IdleExtract
    /\ IdleMux
    /\ IdleCapture
    /\ IdleTags
    /\ IdleSelect

\* renderCompare(profiles)
RenderCompare ==
    /\ vContent = NotRendered
    /\ IF Len(vProfiles) = 0
       THEN /\ vContent' = NoProfilesToCompare
            /\ UNCHANGED <<vProfiles, vListener>>
       ELSE /\ vProfiles' = sortByCreatedAt(vProfiles)
            /\ vListener' = TRUE
            /\ vContent' \in renderTableView(vProfiles')
    /\ UNCHANGED <<vResponse, parseVars, topVars, serverVars, deltaVars, k6Vars, extractVars, muxVars, captureVars, tagVars, selVars>>

\* a click on a button of the view toggle
ClickView ==
    /\ vListener
    /\ \E view \in {"table", "timeline"} :
           vContent' \in IF view = "timeline"
                         THEN renderTimelineView(vProfiles)
                         ELSE renderTableView(vProfiles)
    /\ UNCHANGED <<vResponse, vProfiles, vListener, parseVars, topVars, serverVars, deltaVars, k6Vars, extractVars, muxVars, captureVars, tagVars, selVars>>

NextView == RenderCompare \/ ClickView

SpecView == InitView /\ [][NextView]_vars

\* ------------------------------------------------------------------------
\* k6.Parse on the bytes of a summary
\* ------------------------------------------------------------------------

\* the http_req_failed metrics of the summaries
FailedMetrics ==
    { K6MetricNoValues,
      K6Metric(<<>>),
      K6Metric([rate |-> JNumber(1, 20)]),
      K6Metric([rate |-> JNumber(1, 20), count |-> JNumber(5, 1)]),
      K6Metric([rate |-> JNumber(0, 1), count |-> JNumber(0, 1)]),
      K6Metric([count |-> JNumber(5, 1)]),
      K6Metric([rate |-> JString, count |-> JString]),
      K6Metric([passes |-> JNumber(5, 1), fails |-> JNumber(95, 1)]) }

\* the checks metrics of the summaries
ChecksMetrics ==
    { K6MetricNoValues,
      K6Metric(<<>>),
      K6Metric([passes |-> JNumber(90, 1), fails |-> JNumber(10, 1)]),
      K6Metric([passes |-> JNumber(90, 1), fails |-> JNumber(10, 1), rate |-> JNumber(1, 2)]),
      K6Metric([passes |-> JNumber(0, 1), fails |-> JNumber(0, 1), rate |-> JNumber(1, 2)]),
      K6Metric([passes |-> JNumber(90, 1), rate |-> JNumber(9, 10)]),
      K6Metric([fails |-> JNumber(10, 1), rate |-> JNumber(9, 10)]),
      K6Metric([passes |-> JString, fails |-> JNumber(10, 1), rate |-> JNumber(9, 10)]),
      K6Metric([rate |-> JNumber(9, 10)]),
      K6Metric([rate |-> JString]) }

\* the other metrics of the summaries: latency, throughput and concurrency
OtherMetrics ==
    { <<>>,
      [http_req_duration |-> K6Metric(("p(95)" :> JNumber(12, 1)) @@ ("p(50)" :> JString) @@
                                      [min |-> JNumber(1, 2), max |-> JNumber(40, 1),
                                       avg |-> JNumber(25, 2)]),
       http_reqs |-> K6Metric([rate |-> JNumber(33, 2), count |-> JNumber(100, 1)]),
       vus |-> K6Metric([value |-> JNumber(3, 1)]),
       vus_max |-> K6Metric([value |-> JNumber(5, 1)])],
      [http_req_duration |-> K6MetricNoValues,
       http_reqs |-> K6Metric([rate |-> JString, count |-> JNumber(7, 2)]),
       vus |-> K6Metric(<<>>),
       iterations |-> K6Metric([count |-> JNumber(9, 1)])],
      [http_req_duration |-> K6Metric(("p(50)" :> JNumber(8, 1)) @@ ("p(99)" :> JNumber(30, 1)) @@
                                      [max |-> JString]),
       http_reqs |-> K6Metric([count |-> JString]),
       vus_max |-> K6Metric([value |-> JString]),
       data_sent |-> K6Metric([rate |-> JNumber(4, 1), value |-> JNumber(6, 1)])] }

\* the metrics of other, with the metrics of more added or put in their place
Merge(other, more) ==
    [name \in DOMAIN other \cup DOMAIN more |->
        IF name \in DOMAIN more THEN more[name] ELSE other[name]]

\* the metrics maps with or without http_req_failed and checks
MetricsMaps(other) ==
    {other}
        \cup {Merge(other, [http_req_failed |-> f]) : f \in FailedMetrics}
        \cup {Merge(other, [checks |-> c]) : c \in ChecksMetrics}
        \cup {Merge(other, [http_req_failed |-> f, checks |-> c]) :
                 f \in FailedMetrics, c \in ChecksMetrics}

\* root_group.duration of the summaries
RootDurations == {JNumber(0, 1).f, JNumber(3001, 2).f}

\* a document that fits K6Summary
SummaryJSON(metrics, duration) ==
    [wellFormed |-> TRUE, typed |-> TRUE,
     summary |-> [Metrics |-> metrics, Root |-> [Duration |-> duration]]]

\* a JSON document with a value of the wrong type, such as a string for metrics
MistypedJSON == [wellFormed |-> TRUE, typed |-> FALSE]

InitK6 ==
    /\ \/ kData \in {MalformedJSON, MistypedJSON}
       \/ \E other \in OtherMetrics, duration \in RootDurations :
              \E metrics \in MetricsMaps(other) :
                  kData = SummaryJSON(metrics, duration)
    /\ kOut = K6NotParsed
    /\ IdleParse
    /\ IdleTop
    /\ IdleServer
    /\ IdleDelta
    /\ IdleView
    /\ IdleExtract
    /\ IdleMux
    /\ IdleCapture
    /\ IdleTags
    /\ IdleSelect

\* k6.Parse(kData)
CallK6Parse ==
    /\ kOut = K6NotParsed
    /\ kOut' = K6Parse(kData)
    /\ UNCHANGED <<kData, parseVars, topVars, serverVars, deltaVars, viewVars, extractVars, muxVars, captureVars, tagVars, selVars>>

NextK6 == CallK6Parse

SpecK6 == InitK6 /\ [][NextK6]_vars

\* ------------------------------------------------------------------------
\* An extractor on a profile value, whatever the number of values of its
\* samples
\* ------------------------------------------------------------------------

\* the samples of a profile value: any number of values up to the number of
\* sample types
ShortSamplesOf(st) ==
    [Value : UNION {[1..k -> 0..MaxVal] : k \in 0..Len(st)}, Location : Stacks]

\* the extractor Parse calls for a kind
extractorOf(kind, p) ==
    CASE kind = ProfileTypeCPU -> extractCPUMetrics(p)
      [] kind = ProfileTypeHeap -> extractHeapMetrics(p)
      [] kind = ProfileTypeMutex -> extractMutexMetrics(p)
      [] kind = ProfileTypeBlock -> extractBlockMetrics(p)
      [] kind = ProfileTypeGoroutine -> extractGoroutineMetrics(p)

InitExtract ==
    /\ \E st \in SampleTypeLists :
           \E samples \in SeqsUpTo(ShortSamplesOf(st), MaxSamples) :
               exProfile = [SampleType |-> st, Sample |-> samples, DurationNanos |-> 0]
    /\ exOut = NotExtracted
    /\ IdleParse
    /\ IdleTop
    /\ IdleServer
    /\ IdleDelta
    /\ IdleView
    /\ IdleK6
    /\ IdleMux
    /\ IdleCapture
    /\ IdleTags
    /\ IdleSelect

\* the extractor of the profile's kind, called on the profile
CallExtractor ==
    /\ exOut = NotExtracted
    /\ exOut' \in extractorOf(detectProfileType(exProfile), exProfile)
    /\ UNCHANGED <<exProfile, parseVars, topVars, serverVars, deltaVars, viewVars, k6Vars, muxVars, captureVars, tagVars, selVars>>

NextExtract == CallExtractor

SpecExtract == InitExtract /\ [][NextExtract]_vars

\* ------------------------------------------------------------------------
\* internal/server: the routes of Server.Start and the k6 ingest handler
\* ------------------------------------------------------------------------

\* a segment of a pattern that matches any one segment of a path
Wildcard == "{}"

\* a pattern of the mux: method, path segments, and whether it ends with a
\* slash and so matches every path under it
Pattern(method, segments, subtree, handler) ==
    [method |-> method, segments |-> segments, subtree |-> subtree, handler |-> handler]

\* the patterns Server.Start registers (without the pprof endpoints of
\* EnablePprof)
Routes ==
    { Pattern("POST", <<"api", "pprof", "ingest">>, FALSE, "handlePprofIngest"),
      Pattern("GET", <<"api", "profiles">>, FALSE, "handleListProfiles"),
      Pattern("GET", <<"api", "profiles", "compare">>, FALSE, "handleCompareProfiles"),
      Pattern("GET", <<"api", "profiles", Wildcard>>, FALSE, "handleGetProfile"),
      Pattern("GET", <<"static">>, TRUE, "static"),
      Pattern("GET", <<"fonts">>, TRUE, "fonts"),
      Pattern("GET", <<>>, FALSE, "handleIndex"),
      Pattern("GET", <<"profile", Wildcard>>, FALSE, "handleIndex"),
      Pattern("GET", <<"compare", Wildcard>>, FALSE, "handleIndex") }

\* the path matches the segments of the pattern
pathMatches(pattern, path) ==
    /\ IF pattern.subtree THEN Len(path) >= Len(pattern.segments)
       ELSE Len(path) = Len(pattern.segments)
    /\ \A i \in 1..Len(pattern.segments) :
           pattern.segments[i] = Wildcard \/ pattern.segments[i] = path[i]

\* the number of wildcards of a pattern: the most specific pattern wins
wildcards(pattern) ==
    Cardinality({i \in 1..Len(pattern.segments) : pattern.segments[i] = Wildcard})

\* the handler http.ServeMux picks among the routes: 404 when no pattern
\* matches the path, 405 when patterns match the path but not the method
routeAmong(routes, method, path) ==
    LET onPath == {p \in routes : pathMatches(p, path)}
        onBoth == {p \in onPath : p.method = method}
    IN  IF onPath = {} THEN "404"
        ELSE IF onBoth = {} THEN "405"
        ELSE (CHOOSE p \in onBoth : \A q \in onBoth : wildcards(p) <= wildcards(q)).handler

\* the handler the mux of Server.Start picks
route(method, path) == routeAmong(Routes, method, path)

\* the row handleK6Ingest builds
NewK6Profile(id, body, parsed, tags) ==
    [ID |-> id,
     CreatedAt |-> id,
     ProfileType |-> ProfileTypeK6,
     RawData |-> body,
     DurationNS |-> parsed.DurationMS * 1000000,
     Metrics |-> parsed.Metrics,
     Tags |-> DefaultTags \o tags,
     IsCumulative |-> FALSE]

\* handleK6Ingest for a request with the given body; saved tells whether
\* SaveProfile succeeds
HandleK6Ingest(body, tags, saved) ==
    LET parsed == K6Parse(body.json)
        id == Len(store) + 1
    IN  IF parsed = K6ParseError
        THEN /\ resp' = ErrorResponse("k6 ingest", 400, "Failed to parse k6 summary")
             /\ UNCHANGED store
        ELSE IF ~saved
        THEN /\ resp' = ErrorResponse("k6 ingest", 500, "Failed to save profile")
             /\ UNCHANGED store
        ELSE /\ store' = Append(store, NewK6Profile(id, body, parsed, tags))
             /\ resp' = [op |-> "k6 ingest", status |-> 200, id |-> id]

\* the row id a path segment names: a row, or an id of no row
idOf(segment) ==
    CASE segment = "1" -> 1
      [] segment = "2" -> 2
      [] OTHER -> MaxCompared + 1

\* handleGetProfile and handleListProfiles, as far as their status goes
HandleGetProfile(id) ==
    /\ resp' = IF HasProfile(store, id)
               THEN [op |-> "get", status |-> 200, id |-> id]
               ELSE ErrorResponse("get", 404, "Profile not found")
    /\ UNCHANGED store

HandleListProfiles ==
    /\ resp' = [op |-> "list", status |-> 200, rows |-> Len(store)]
    /\ UNCHANGED store

\* the bodies of the requests: the bytes as profile.Parse and as
\* json.Unmarshal see them
ServeBodies ==
    { [pprof |-> [wellFormed |-> TRUE,
                  profile |-> [SampleType |-> <<ValueType("goroutine", "count")>>,
                               Sample |-> <<>>, DurationNanos |-> 0]],
       json |-> MalformedJSON],
      [pprof |-> [wellFormed |-> FALSE, profile |-> EmptyProfile],
       json |-> SummaryJSON([http_req_failed |-> K6Metric([rate |-> JNumber(1, 20)])],
                            JNumber(3001, 2).f)],
      [pprof |-> [wellFormed |-> FALSE, profile |-> EmptyProfile],
       json |-> SummaryJSON(<<>>, JNumber(0, 1).f)],
      [pprof |-> [wellFormed |-> FALSE, profile |-> EmptyProfile], json |-> MistypedJSON],
      [pprof |-> [wellFormed |-> FALSE, profile |-> EmptyProfile], json |-> MalformedJSON] }

\* the paths of the requests
ServePaths ==
    { <<"api", "pprof", "ingest">>, <<"api", "k6", "ingest">>, <<"api", "profiles">>,
      <<"api", "profiles", "compare">>, <<"api", "profiles", "1">>, <<"api", "profiles", "9">>,
      <<"static", "app.js">>, <<>>, <<"compare", "1,2">>, <<"api">> }

\* the ids parameters of the comparison requests
ServeIds == {<<BlankID>>, <<1, 2>>, <<1, BlankID>>}

InitServe ==
    /\ IdleServer
    /\ IdleMux
    /\ IdleParse
    /\ IdleTop
    /\ IdleDelta
    /\ IdleView
    /\ IdleK6
    /\ IdleExtract
    /\ IdleCapture
    /\ IdleTags
    /\ IdleSelect

\* one request served by the mux of Server.Start
Serve ==
    /\ Len(store) < MaxStored
    /\ \E method \in {"GET", "POST"}, path \in ServePaths, body \in ServeBodies,
          ids \in ServeIds, saved \in BOOLEAN :
           LET handler == route(method, path)
           IN  /\ req' = [method |-> method, path |-> path, body |-> body]
               /\ CASE handler = "handlePprofIngest" ->
                           HandlePprofIngest(body.pprof, "", "", <<>>, saved)
                    [] handler = "handleK6Ingest" -> HandleK6Ingest(body, <<>>, saved)
                    [] handler = "handleCompareProfiles" ->
                           resp' = handleCompareProfiles(store, ids) /\ UNCHANGED store
                    [] handler = "handleGetProfile" -> HandleGetProfile(idOf(path[3]))
                    [] handler = "handleListProfiles" -> HandleListProfiles
                    [] handler \in {"handleIndex", "static", "fonts"} ->
                           resp' = [op |-> handler, status |-> 200] /\ UNCHANGED store
                    [] handler = "405" ->
                           resp' = ErrorResponse("mux", 405, "Method Not Allowed") /\ UNCHANGED store
                    [] OTHER ->
                           resp' = ErrorResponse("mux", 404, "404 page not found") /\ UNCHANGED store
    /\ UNCHANGED <<parseVars, topVars, deltaVars, viewVars, k6Vars, extractVars, captureVars, tagVars, selVars>>

NextServe == Serve

SpecServe == InitServe /\ [][NextServe]_vars

\* ------------------------------------------------------------------------
\* cmd/perfkit: runCapture (SpecCapture)
\* ------------------------------------------------------------------------

\* the largest --count, the most profile types of --profiles, and the
\* rounds after which a run without a count is not followed further
MaxCount == 2
MaxTypes == 3
MaxRounds == 3

\* the loop's test after a tick, off by one: stops before round Count
countReachedInclusive(n, count) == count > 0 /\ n >= count

\* the loop's test after a tick: all Count rounds are done
countReached(n, count) == count > 0 /\ n > count

\* the profile types runCapture captures, as their count
profilesOf(c) == c.Profiles

\* captureRound is running
inCaptureRound == pc \in {"single", "first", "tick"}

\* the commands: --interval (zero, or a positive duration), --count, and
\* the number of profile types of --profiles
InitCapture ==
    /\ \E interval \in 0..1, count \in 0..MaxCount, types \in 1..MaxTypes :
           cmd = [Interval |-> interval, Count |-> count, Profiles |-> types]
    /\ pc = "start"
    /\ round = 0
    /\ pt = 0
    /\ ctxDone = FALSE
    /\ tickerC = FALSE
    /\ roundsCalled = 0
    /\ roundsCompleted = 0
    /\ step = "check"
    /\ liveAtCheck = TRUE
    /\ results = <<>>
    /\ observed = FALSE
    /\ IdleParse
    /\ IdleTop
    /\ IdleServer
    /\ IdleDelta
    /\ IdleView
    /\ IdleK6
    /\ IdleExtract
    /\ IdleMux
    /\ IdleTags
    /\ IdleSelect

\* the select of captureRound before each profile type: ctx.Done() is taken
\* by no check
ctxNeverDone(done) == FALSE

\* the select of captureRound before each profile type: ctx.Done() is taken
\* exactly when the context is cancelled, else the default case
ctxIsDone(done) == done

\* Result.Error of CaptureAndSend is nil, or the error of the capture or of
\* the upload
Outcomes == {"ok", "error"}

\* runCapture up to its first call of captureRound: captureRound(0) in
\* single capture mode, else round = 1, the ticker, and captureRound(1)
StartCapture ==
    /\ pc = "start"
    /\ IF cmd.Interval = 0
       THEN pc' = "single" /\ round' = round
       ELSE pc' = "first" /\ round' = 1
    /\ pt' = 1
    /\ step' = "check"
    /\ results' = <<>>
    /\ roundsCalled' = roundsCalled + 1
    /\ UNCHANGED <<cmd, ctxDone, tickerC, roundsCompleted, liveAtCheck, observed>>
    /\ UNCHANGED <<parseVars, topVars, serverVars, deltaVars, viewVars, k6Vars, extractVars, muxVars, tagVars, selVars>>

\* the head of one pass of the loop of captureRound: when the context is
\* done captureRound returns false and runCapture returns, else the pass
\* goes on to the capture
CheckContext ==
    /\ inCaptureRound
    /\ pt <= profilesOf(cmd)
    /\ step = "check"
    /\ liveAtCheck' = ~ctxDone
    /\ IF ctxIsDone(ctxDone)
       THEN pc' = "done" /\ observed' = TRUE /\ step' = step
       ELSE pc' = pc /\ observed' = observed /\ step' = "call"
    /\ UNCHANGED <<cmd, round, pt, ctxDone, tickerC, roundsCalled, roundsCompleted, results>>
    /\ UNCHANGED <<parseVars, topVars, serverVars, deltaVars, viewVars, k6Vars, extractVars, muxVars, tagVars, selVars>>

\* the rest of the pass: CaptureAndSend(pt) returns, with or without an
\* error, the result is printed, and the loop goes to the next profile type
CaptureAndSend ==
    /\ inCaptureRound
    /\ step = "call"
    /\ \E outcome \in Outcomes : results' = Append(results, outcome)
    /\ pt' = pt + 1
    /\ step' = "check"
    /\ UNCHANGED <<cmd, pc, round, ctxDone, tickerC, roundsCalled, roundsCompleted, liveAtCheck, observed>>
    /\ UNCHANGED <<parseVars, topVars, serverVars, deltaVars, viewVars, k6Vars, extractVars, muxVars, tagVars, selVars>>

\* captureRound returns true: runCapture returns in single capture mode,
\* else counts the round and waits in the select
RoundDone ==
    /\ inCaptureRound
    /\ pt > profilesOf(cmd)
    /\ roundsCompleted' = roundsCompleted + 1
    /\ IF pc = "single"
       THEN pc' = "done" /\ round' = round
       ELSE pc' = "select" /\ round' = round + 1
    /\ UNCHANGED <<cmd, pt, ctxDone, tickerC, roundsCalled, step, liveAtCheck, results, observed>>
    /\ UNCHANGED <<parseVars, topVars, serverVars, deltaVars, viewVars, k6Vars, extractVars, muxVars, tagVars, selVars>>

\* the select takes ctx.Done()
SelectDone ==
    /\ pc = "select"
    /\ ctxDone
    /\ pc' = "done"
    /\ observed' = TRUE
    /\ UNCHANGED <<cmd, round, pt, ctxDone, tickerC, roundsCalled, roundsCompleted, step, liveAtCheck, results>>
    /\ UNCHANGED <<parseVars, topVars, serverVars, deltaVars, viewVars, k6Vars, extractVars, muxVars, tagVars, selVars>>

\* the select takes a tick: runCapture returns when the count is reached,
\* else calls captureRound(round)
SelectTick ==
    /\ pc = "select"
    /\ tickerC
    /\ cmd.Count > 0 \/ round <= MaxRounds
    /\ tickerC' = FALSE
    /\ IF countReached(round, cmd.Count)
       THEN pc' = "done" /\ pt' = pt /\ roundsCalled' = roundsCalled
            /\ results' = results
       ELSE pc' = "tick" /\ pt' = 1 /\ roundsCalled' = roundsCalled + 1
            /\ results' = <<>>
    /\ UNCHANGED <<cmd, round, ctxDone, roundsCompleted, step, liveAtCheck, observed>>
    /\ UNCHANGED <<parseVars, topVars, serverVars, deltaVars, viewVars, k6Vars, extractVars, muxVars, tagVars, selVars>>

\* the ticker sends a tick; ticker.C holds one tick, a tick that finds it
\* full is dropped
Tick ==
    /\ pc \in {"first", "tick", "select"}
    /\ ~tickerC
    /\ tickerC' = TRUE
    /\ UNCHANGED <<cmd, pc, round, pt, ctxDone, roundsCalled, roundsCompleted, step, liveAtCheck, results, observed>>
    /\ UNCHANGED <<parseVars, topVars, serverVars, deltaVars, viewVars, k6Vars, extractVars, muxVars, tagVars, selVars>>

\* SIGINT or SIGTERM arrives: the goroutine cancels the context
Cancel ==
    /\ pc \notin {"idle", "done"}
    /\ ~ctxDone
    /\ ctxDone' = TRUE
    /\ UNCHANGED <<cmd, pc, round, pt, tickerC, roundsCalled, roundsCompleted, step, liveAtCheck, results, observed>>
    /\ UNCHANGED <<parseVars, topVars, serverVars, deltaVars, viewVars, k6Vars, extractVars, muxVars, tagVars, selVars>>

NextCapture ==
    \/ StartCapture
    \/ CheckContext
    \/ CaptureAndSend
    \/ RoundDone
    \/ SelectDone
    \/ SelectTick
    \/ Tick
    \/ Cancel

SpecCapture == InitCapture /\ [][NextCapture]_vars

\* runCapture and the ticker keep running; a signal may never arrive
SpecCaptureFair ==
    /\ SpecCapture
    /\ WF_vars(StartCapture)
    /\ WF_vars(CheckContext)
    /\ WF_vars(CaptureAndSend)
    /\ WF_vars(RoundDone)
    /\ WF_vars(SelectDone)
    /\ WF_vars(SelectTick)
    /\ WF_vars(Tick)

\* ------------------------------------------------------------------------
\* internal/server: two ingest requests handled in parallel (SpecTags)
\* ------------------------------------------------------------------------

\* the most default tags of the configuration and tag parameters of a request
MaxDefaultTags == 2
MaxTags == 2

\* the tags of the configuration file and of the requests
ConfigTagNames == {"production", "api"}
RequestTagNames == {"a", "b"}

\* an array slot nothing was written to
Unwritten == ""

\* the capacity of a slice of n elements with room for one more
capacityWithSlack(n) == n + 1

\* the capacity of the slice config.Load leaves in DefaultTags for n tags:
\* Default's empty literal, or yaml.Unmarshal's slice made for the n items of
\* the sequence
capacityLoaded(n) == n

\* n unwritten slots
Slots(n) == [i \in 1..n |-> Unwritten]

\* the elements of a slice
elementsOf(mem, s) == SubSeq(mem[s.array], 1, s.len)

\* the two handlers
Handlers == 1..2

\* the array a handler's append allocates when it has to grow the slice
newArrayOf(h) == h

InitTags ==
    /\ \E loaded \in SeqsUpTo(ConfigTagNames, MaxDefaultTags),
          tags1 \in SeqsUpTo(RequestTagNames, MaxTags),
          tags2 \in SeqsUpTo(RequestTagNames, MaxTags),
          kind1 \in {"pprof", "k6"}, kind2 \in {"pprof", "k6"} :
           /\ tags1 # tags2
           /\ loadedTags = loaded
           /\ cfgDefaultTags = Slice(0, Len(loaded), capacityLoaded(Len(loaded)))
           /\ arrays = [a \in 0..2 |->
                           IF a = 0
                           THEN loaded \o Slots(capacityLoaded(Len(loaded)) - Len(loaded))
                           ELSE <<>>]
           /\ handlers = [h \in Handlers |->
                             [kind |-> IF h = 1 THEN kind1 ELSE kind2,
                              tags |-> IF h = 1 THEN tags1 ELSE tags2,
                              pc |-> "append",
                              copied |-> 0,
                              Tags |-> Slice(0, 0, 0)]]
    /\ savedTags = <<>>
    /\ IdleParse
    /\ IdleTop
    /\ IdleServer
    /\ IdleDelta
    /\ IdleView
    /\ IdleK6
    /\ IdleExtract
    /\ IdleMux
    /\ IdleCapture
    /\ IdleSelect

\* append(s.cfg.DefaultTags, tags...), up to the copy of the tags: the
\* slice itself when there is nothing to append, the same array when the
\* capacity suffices, else a new array with the elements copied over
AppendBegin(h) ==
    LET s == cfgDefaultTags
        n == Len(handlers[h].tags)
    IN  /\ handlers[h].pc = "append"
        /\ IF n = 0
           THEN /\ handlers' = [handlers EXCEPT ![h].Tags = s, ![h].pc = "save"]
                /\ UNCHANGED arrays
           ELSE IF s.len + n <= s.cap
           THEN /\ handlers' = [handlers EXCEPT ![h].Tags = Slice(s.array, s.len + n, s.cap),
                                                 ![h].pc = "copy"]
                /\ UNCHANGED arrays
           ELSE /\ arrays' = [arrays EXCEPT ![newArrayOf(h)] = elementsOf(arrays, s) \o Slots(n)]
                /\ handlers' = [handlers EXCEPT
                                   ![h].Tags = Slice(newArrayOf(h), s.len + n, s.len + n),
                                   ![h].pc = "copy"]
        /\ UNCHANGED <<cfgDefaultTags, loadedTags, savedTags>>
        /\ UNCHANGED <<parseVars, topVars, serverVars, deltaVars, viewVars, k6Vars, extractVars, muxVars, captureVars, selVars>>

\* append writes the next tag of the request behind the default tags
AppendCopy(h) ==
    LET me == handlers[h]
        k == me.copied + 1
    IN  /\ me.pc = "copy"
        /\ arrays' = [arrays EXCEPT ![me.Tags.array][cfgDefaultTags.len + k] = me.tags[k]]
        /\ handlers' = [handlers EXCEPT ![h].copied = k,
                                         ![h].pc = IF k = Len(me.tags) THEN "save" ELSE "copy"]
        /\ UNCHANGED <<cfgDefaultTags, loadedTags, savedTags>>
        /\ UNCHANGED <<parseVars, topVars, serverVars, deltaVars, viewVars, k6Vars, extractVars, muxVars, captureVars, selVars>>

\* SaveProfile writes the row with the tags profile.Tags holds then
SaveTags(h) ==
    /\ handlers[h].pc = "save"
    /\ savedTags' = Append(savedTags, [handler |-> h, kind |-> handlers[h].kind,
                                       Tags |-> elementsOf(arrays, handlers[h].Tags)])
    /\ handlers' = [handlers EXCEPT ![h].pc = "done"]
    /\ UNCHANGED <<arrays, cfgDefaultTags, loadedTags>>
    /\ UNCHANGED <<parseVars, topVars, serverVars, deltaVars, viewVars, k6Vars, extractVars, muxVars, captureVars, selVars>>

NextTags ==
    \/ \E h \in Handlers : AppendBegin(h)
    \/ \E h \in Handlers : AppendCopy(h)
    \/ \E h \in Handlers : SaveTags(h)

SpecTags == InitTags /\ [][NextTags]_vars

\* ------------------------------------------------------------------------
\* extractGoroutineMetrics on goroutine profiles (SpecGoroutine)
\* ------------------------------------------------------------------------

\* a function the profile names with the empty string, and a function whose
\* name holds a newline
NameEmpty == <<>>
NameFNewLineG == NameF \o <<NewLine>> \o NameG

\* the call stacks of the goroutine samples
GoroutineStacks ==
    { <<>>,
      <<Location(<<Line(Function(NameF))>>)>>,
      <<Location(<<Line(Function(NameF))>>), Location(<<Line(Function(NameG))>>)>>,
      <<Location(<<Line(Function(NameG))>>), Location(<<Line(Function(NameF))>>)>>,
      <<Location(<<Line(Function(NameEmpty))>>), Location(<<Line(Function(NameF))>>)>>,
      <<Location(<<Line(Function(NameFNewLineG))>>)>> }

GoroutineSamples == [Value : {<<1>>}, Location : GoroutineStacks]

InitGoroutine ==
    /\ \E samples \in SeqsUpTo(GoroutineSamples, MaxSamples + 1) :
           exProfile = [SampleType |-> <<ValueType("goroutine", "count")>>,
                        Sample |-> samples, DurationNanos |-> 0]
    /\ exOut = NotExtracted
    /\ IdleParse
    /\ IdleTop
    /\ IdleServer
    /\ IdleDelta
    /\ IdleView
    /\ IdleK6
    /\ IdleMux
    /\ IdleCapture
    /\ IdleTags
    /\ IdleSelect

SpecGoroutine == InitGoroutine /\ [][NextExtract]_vars

\* ------------------------------------------------------------------------
\* app.js: the comparison view for records of every kind (SpecViewKinds)
\* ------------------------------------------------------------------------

\* the kinds of the records the server stores
ProfileKinds ==
    {ProfileTypeCPU, ProfileTypeHeap, ProfileTypeGoroutine, ProfileTypeBlock, ProfileTypeMutex,
     ProfileTypeAllocs, ProfileTypeThreadCreate, ProfileTypeGC, ProfileTypeK6}

\* a response of records of the given kind
ResponseOfKind(kind, n, times, metrics) ==
    [i \in 1..n |-> [Response(n, times, metrics)[i] EXCEPT !.profile_type = kind]]

InitViewKinds ==
    /\ \E kind \in ProfileKinds, n \in 2..MaxProfiles :
           \E times \in [1..n -> 1..2], metrics \in [1..n -> {<<>>, [sample_count |-> Number(100)]}] :
               vResponse = ResponseOfKind(kind, n, times, metrics)
    /\ vProfiles = vResponse
    /\ vListener = FALSE
    /\ vContent = NotRendered
    /\ IdleParse
    /\ IdleTop
    /\ IdleServer
    /\ IdleDelta
    /\ IdleK6
    /\ IdleExtract
    /\ IdleMux
    /\ IdleCapture
    /\ IdleTags
    /\ IdleSelect

SpecViewKinds == InitViewKinds /\ [][NextView]_vars

\* ------------------------------------------------------------------------
\* app.js: the selection of profiles on the dashboard (SpecSelect)
\* ------------------------------------------------------------------------

\* the most profiles the server lists, and the most change listeners the
\* renders of one dashboard are followed for
MaxListed == 4
MaxListeners == 2

\* the profiles of the server: their ids, and the kind of each
ListedIds == 1..MaxListed

listedType(id) == IF id % 2 = 1 THEN ProfileTypeCPU ELSE ProfileTypeHeap

\* Map.set and Map.delete
MapSet(m, key, value) == [k \in DOMAIN m \cup {key} |-> IF k = key THEN value ELSE m[k]]

MapDelete(m, key) == [k \in DOMAIN m \ {key} |-> m[k]]

\* this.profiles.size
sizeOf(sel) == Cardinality(DOMAIN sel.profiles)

\* selection.add without updateUI
addTo(sel, id, profile) ==
    [profiles |-> MapSet(sel.profiles, id, profile),
     lockedType |-> IF sizeOf(sel) = 0 THEN profile.profile_type ELSE sel.lockedType]

\* remove that leaves lockedType as it is
removeKeepingLock(sel, id) ==
    [profiles |-> MapDelete(sel.profiles, id), lockedType |-> sel.lockedType]

\* selection.remove without updateUI
removeFrom(sel, id) ==
    [profiles |-> MapDelete(sel.profiles, id),
     lockedType |-> IF DOMAIN sel.profiles \ {id} = {} THEN Null ELSE sel.lockedType]

\* the page: the selection, the rows and the Compare button
Page(sel, rws, btn) == [selection |-> sel, rows |-> rws, btn |-> btn]

\* selection.updateUI: the button, and the checkboxes of the other types
updateUI(page) ==
    Page(page.selection,
         [r \in DOMAIN page.rows |->
             [page.rows[r] EXCEPT !.disabled = (page.selection.lockedType # Null
                                                /\ page.rows[r].type # page.selection.lockedType)]],
         IF sizeOf(page.selection) < 2 THEN Disabled ELSE Enabled)

\* selection.clear
clear(page) ==
    LET cleared == updateUI(Page(EmptySelection, page.rows, page.btn))
    IN  Page(cleared.selection,
             [r \in DOMAIN cleared.rows |-> [cleared.rows[r] EXCEPT !.checked = FALSE, !.disabled = FALSE]],
             cleared.btn)

\* one change listener of the container, for the checkbox of the row of id
changeListener(page, id) ==
    IF page.rows[id].checked
    THEN updateUI(Page(addTo(page.selection, id, [profile_type |-> page.rows[id].type]),
                       page.rows, page.btn))
    ELSE updateUI(Page(removeFrom(page.selection, id), page.rows, page.btn))

\* the change event runs every listener renderProfiles has added
RECURSIVE dispatchChange(_, _, _)
dispatchChange(page, id, n) ==
    IF n = 0 THEN page ELSE dispatchChange(changeListener(page, id), id, n - 1)

\* the rows renderProfiles builds for a list of profiles
renderedRows(sel, list) ==
    [id \in list |->
        [type |-> listedType(id),
         checked |-> id \in DOMAIN sel.profiles,
         disabled |-> sel.lockedType # Null /\ listedType(id) # sel.lockedType]]

thePage == Page(selection, pageRows, compareBtn)

\* the page's variables take the values of a page
becomes(page) ==
    /\ selection' = page.selection
    /\ pageRows' = page.rows
    /\ compareBtn' = page.btn

InitSelect ==
    /\ selection = EmptySelection
    /\ pageRows = <<>>
    /\ compareBtn = FromTemplate
    /\ listeners = 0
    /\ IdleParse
    /\ IdleTop
    /\ IdleServer
    /\ IdleDelta
    /\ IdleView
    /\ IdleK6
    /\ IdleExtract
    /\ IdleMux
    /\ IdleCapture
    /\ IdleTags

\* renderProfiles(profiles) for the list a refresh has fetched
RenderProfiles ==
    /\ \E list \in SUBSET ListedIds :
           IF list = {}
           THEN /\ pageRows' = <<>>
                /\ UNCHANGED <<selection, compareBtn, listeners>>
           ELSE /\ listeners < MaxListeners
                /\ becomes(updateUI(Page(selection, renderedRows(selection, list), compareBtn)))
                /\ listeners' = listeners + 1
    /\ UNCHANGED <<parseVars, topVars, serverVars, deltaVars, viewVars, k6Vars, extractVars, muxVars, captureVars, tagVars>>

\* the user toggles a checkbox that is not disabled
ToggleCheckbox ==
    /\ \E id \in DOMAIN pageRows :
           /\ ~pageRows[id].disabled
           /\ becomes(dispatchChange(
                  Page(selection, [pageRows EXCEPT ![id].checked = ~pageRows[id].checked], compareBtn),
                  id, listeners))
    /\ UNCHANGED listeners
    /\ UNCHANGED <<parseVars, topVars, serverVars, deltaVars, viewVars, k6Vars, extractVars, muxVars, captureVars, tagVars>>

\* a click on the clear button
ClickClear ==
    /\ listeners > 0
    /\ becomes(clear(thePage))
    /\ UNCHANGED listeners
    /\ UNCHANGED <<parseVars, topVars, serverVars, deltaVars, viewVars, k6Vars, extractVars, muxVars, captureVars, tagVars>>

\* a click on the Compare button: the selection is cleared and the router
\* leaves the dashboard, whose template is cloned anew on return
ClickCompare ==
    /\ listeners > 0
    /\ compareBtn = Enabled
    /\ selection' = clear(thePage).selection
    /\ pageRows' = <<>>
    /\ compareBtn' = FromTemplate
    /\ listeners' = 0
    /\ UNCHANGED <<parseVars, topVars, serverVars, deltaVars, viewVars, k6Vars, extractVars, muxVars, captureVars, tagVars>>

\* the user follows a link and comes back: renderDashboard clones the
\* template anew, the selection object stays
RenderDashboard ==
    /\ listeners > 0
    /\ pageRows' = <<>>
    /\ compareBtn' = FromTemplate
    /\ listeners' = 0
    /\ UNCHANGED selection
    /\ UNCHANGED <<parseVars, topVars, serverVars, deltaVars, viewVars, k6Vars, extractVars, muxVars, captureVars, tagVars>>

NextSelect ==
    \/ RenderProfiles
    \/ ToggleCheckbox
    \/ ClickClear
    \/ ClickCompare
    \/ RenderDashboard

SpecSelect == InitSelect /\ [][NextSelect]_vars

\* ------------------------------------------------------------------------
\* Properties of pprof.Parse (SpecParse)
\* ------------------------------------------------------------------------

\* the contributor list of a metrics record of the four function-attributed
\* kinds
Contributors(m) ==
    CASE m.variant = ProfileTypeCPU -> m.TopFunctions
      [] m.variant = ProfileTypeHeap -> m.TopAllocators
      [] m.variant = ProfileTypeMutex -> m.TopContenders
      [] m.variant = ProfileTypeBlock -> m.TopBlockers
      [] OTHER -> <<>>

\* C4: every contributor entry of a record produced by the CPU, heap, mutex
\* or block extractor has percentOfTotal in [0, 100].
C4_PercentInRange ==
    run1.err = "" =>
        \A i \in DOMAIN Contributors(run1.Metrics) :
            LET pct == Contributors(run1.Metrics)[i].Percent
            IN  pct.num >= 0 /\ pct.num <= 100 * pct.den

\* the signature of a kind, as the format detector's contract states it
signatureMatches(kind, st) ==
    CASE kind = ProfileTypeCPU -> st.Type \in {"cpu", "samples"} /\ st.Unit \in {"nanoseconds", "count"}
      [] kind = ProfileTypeHeap -> st.Type \in {"alloc_objects", "alloc_space", "inuse_objects", "inuse_space"}
      [] kind = ProfileTypeMutex -> st.Type \in {"contentions", "delay"}
      [] kind = ProfileTypeBlock -> st.Type = "block"
      [] kind = ProfileTypeGoroutine -> st.Type = "goroutine"
      [] OTHER -> FALSE

KindPriority == <<ProfileTypeCPU, ProfileTypeHeap, ProfileTypeMutex, ProfileTypeBlock, ProfileTypeGoroutine>>

matchedRanks(sts) ==
    {r \in 1..Len(KindPriority) : \E i \in 1..Len(sts) : signatureMatches(KindPriority[r], sts[i])}

anyKindMatches(st) == \E r \in 1..Len(KindPriority) : signatureMatches(KindPriority[r], st)

\* C6 as stated: the detected kind is the highest-priority kind whose
\* signature some descriptor of the list matches, wherever that descriptor
\* stands in the list.
C6_HighestPriorityKind ==
    (run1.err = "" /\ matchedRanks(buf.profile.SampleType) # {}) =>
        run1.Type = KindPriority[CHOOSE r \in matchedRanks(buf.profile.SampleType) :
                                    \A q \in matchedRanks(buf.profile.SampleType) : r <= q]

\* C6 as amended: the detected kind is the kind whose signature is matched
\* by the first descriptor, in list order, that matches any kind's signature.
C6_FirstMatchingDescriptor ==
    run1.err = "" =>
        \A i \in 1..Len(buf.profile.SampleType) :
            (/\ anyKindMatches(buf.profile.SampleType[i])
             /\ \A j \in 1..(i - 1) : ~anyKindMatches(buf.profile.SampleType[j]))
            => signatureMatches(run1.Type, buf.profile.SampleType[i])

\* a goroutine descriptor followed by a CPU descriptor has been classified
C6_Witness ==
    /\ run1.err = ""
    /\ Len(buf.profile.SampleType) = 2
    /\ signatureMatches(ProfileTypeGoroutine, buf.profile.SampleType[1])
    /\ signatureMatches(ProfileTypeCPU, buf.profile.SampleType[2])
    /\ run1.Type = ProfileTypeGoroutine

\* C8: two runs of Parse on the same byte buffer return identical results.
C8_SameResultTwice == (run1 # NotRun /\ run2 # NotRun) => run1 = run2

\* the attribution keys of a profile in first-seen order, as the entries of
\* the record name them
discoveredKeys(p, kind) ==
    CASE kind = ProfileTypeCPU -> DiscoveryOrder(cpuCredits(p))
      [] kind = ProfileTypeHeap -> DiscoveryOrder(heapCredits(p))
      [] kind \in {ProfileTypeMutex, ProfileTypeBlock} -> DiscoveryOrder(contentionCredits(p))
      [] kind = ProfileTypeGoroutine ->
            [i \in 1..Len(DiscoveryOrder(stackCredits(p))) |-> splitStack(DiscoveryOrder(stackCredits(p))[i])]

\* the (key, value) pairs of the contributor list of a record
rankedEntries(m) ==
    IF m.variant = ProfileTypeGoroutine
    THEN [i \in 1..Len(m.TopStacks) |-> [key |-> m.TopStacks[i].Stack, value |-> m.TopStacks[i].Count]]
    ELSE [i \in 1..Len(Contributors(m)) |-> [key |-> Contributors(m)[i].Name, value |-> Contributors(m)[i].Value]]

positionIn(seq, x) == CHOOSE i \in 1..Len(seq) : seq[i] = x

\* C9: a contributor list is sorted by value descending and entries of
\* equal value stand in discovery (first-seen) order.
C9_TiesInDiscoveryOrder ==
    run1.err = "" =>
        LET entries == rankedEntries(run1.Metrics)
            order == discoveredKeys(buf.profile, run1.Type)
        IN  \A i, j \in 1..Len(entries) :
                i < j =>
                    /\ entries[i].value >= entries[j].value
                    /\ entries[i].value = entries[j].value =>
                           positionIn(order, entries[i].key) < positionIn(order, entries[j].key)

\* ------------------------------------------------------------------------
\* Properties of topFunctions (SpecTop)
\* ------------------------------------------------------------------------

\* C10: for n >= 0 the result of topFunctions has length min(n, number of
\* keys), holds each key at most once with the value of the map, is ordered
\* by value non-increasing, and leaves out no key whose value is strictly
\* greater than the value of a key it holds.
C10_TopNShape ==
    (tfCalled /\ tfN >= 0) =>
        /\ Len(tfOut) = Min(tfN, Cardinality(DOMAIN tfMap))
        /\ Len(tfOut) <= tfN
        /\ \A i, j \in 1..Len(tfOut) : i # j => tfOut[i].Name # tfOut[j].Name
        /\ \A i \in 1..Len(tfOut) :
               /\ tfOut[i].Name \in DOMAIN tfMap
               /\ tfOut[i].Value = tfMap[tfOut[i].Name]
        /\ \A i, j \in 1..Len(tfOut) : i < j => tfOut[i].Value >= tfOut[j].Value
        /\ \A k \in DOMAIN tfMap :
               (\A i \in 1..Len(tfOut) : tfOut[i].Name # k) =>
                   \A i \in 1..Len(tfOut) : tfMap[k] <= tfOut[i].Value

\* a map of three keys of different values has been cut to its two largest
C10_Witness ==
    /\ tfCalled
    /\ tfN = 2
    /\ DOMAIN tfMap = MapKeys
    /\ tfMap[NameF] < tfMap[NameG]
    /\ tfMap[NameG] < tfMap[NameH]
    /\ Len(tfOut) = 2
    /\ tfOut[1].Name = NameH
    /\ tfOut[2].Name = NameG

\* ------------------------------------------------------------------------
\* Properties of pprof ingest (SpecIngest)
\* ------------------------------------------------------------------------

\* C7: the metrics stored with a record are the variant of the record's
\* stored ProfileType, for each of the kinds that have an extractor, also
\* when the kind was given by the `type` query parameter.
C7_MetricsVariantOfStoredKind ==
    \A i \in 1..Len(store) :
        store[i].ProfileType \in Range(KindPriority) =>
            store[i].Metrics.variant = store[i].ProfileType

\* ------------------------------------------------------------------------
\* Properties of the compare handler (SpecCompare)
\* ------------------------------------------------------------------------

\* the rows the non-blank ids of a request resolve to
fetchedRows(table, ids) == {GetProfile(table, id) : id \in {x \in Range(ids) : HasProfile(table, x)}}

\* C1: a comparison request whose ids resolve to two records of different
\* ProfileKinds is answered with an error and without a record list,
\* whatever the number and the order of the ids.
C1_MixedKindsRejected ==
    (/\ resp.op = "compare"
     /\ \E a, b \in fetchedRows(store, resp.ids) : a.ProfileType # b.ProfileType)
    => (resp.status # 200 /\ "profiles" \notin DOMAIN resp)

\* three stored records, the third of another kind than the first two, were
\* requested in their order and rejected by the type check
C1_Witness ==
    /\ resp.op = "compare"
    /\ resp.ids = <<1, 2, 3>>
    /\ Len(store) = 3
    /\ store[1].ProfileType = store[2].ProfileType
    /\ store[3].ProfileType # store[1].ProfileType
    /\ resp.status = 400
    /\ resp.message = "All profiles must be of the same type"

\* ------------------------------------------------------------------------
\* Properties of calculateDelta (SpecDelta)
\* ------------------------------------------------------------------------

\* the classification of a delta by its sign and the metric's direction
classOf(diff, lowerIsBetter) ==
    IF diff = 0 THEN "delta-neutral"
    ELSE IF (diff < 0) = lowerIsBetter THEN "delta-improved"
    ELSE "delta-regressed"

\* calculateDelta has returned for two defined values
deltaComputed == dOut # NotCalled /\ dOld.defined /\ dNew.defined

\* delta / prev * 100 of the call, as an exact fraction
exactPercent ==
    LET d == Quotient(dNew.n - dOld.n, dOld.n)
    IN  Quotient(100 * d.num, d.den)

\* the delta and its classification, as C2 states them
deltaAndClass ==
    /\ dOut.diff = dNew.n - dOld.n
    /\ dOut.class = classOf(dNew.n - dOld.n, dMetric.lowerIsBetter)
    /\ (dOut.diff # 0 /\ dOld.n = 0) => dOut.text.pct.inf

\* C2 as stated: delta = curr - prev, neutral when 0, else improved exactly
\* when (delta < 0) = lowerIsBetter, and percentChange = delta / prev * 100
\* when prev # 0, else infinite.
C2_DeltaExactPercent ==
    deltaComputed =>
        /\ deltaAndClass
        /\ (dOut.diff # 0 /\ dOld.n # 0) =>
               /\ ~dOut.text.pct.inf
               /\ dOut.text.pct.tenths * exactPercent.den = 10 * exactPercent.num

\* C2 as amended: the percentage reported is delta / prev * 100 rounded to
\* one decimal place, i.e. a tenth nearest to it.
C2_DeltaRoundedPercent ==
    deltaComputed =>
        /\ deltaAndClass
        /\ (dOut.diff # 0 /\ dOld.n # 0) =>
               /\ ~dOut.text.pct.inf
               /\ 2 * Abs(dOut.text.pct.tenths * exactPercent.den - 10 * exactPercent.num)
                      <= exactPercent.den
        /\ (dOld.n = 100 /\ dNew.n = 80 /\ dMetric.lowerIsBetter) =>
               (dOut.class = "delta-improved" /\ dOut.text.pct.tenths = -200)
        /\ (dOld.n = 100 /\ dNew.n = 120 /\ ~dMetric.lowerIsBetter) =>
               (dOut.class = "delta-improved" /\ dOut.text.pct.tenths = 200)

\* a change from 3 to 4 of a lower-is-better metric has been reported as a
\* regression of 33.3 percent
C2_Witness ==
    /\ deltaComputed
    /\ dOld.n = 3
    /\ dNew.n = 4
    /\ dMetric.lowerIsBetter
    /\ dOut.class = "delta-regressed"
    /\ dOut.text.pct.tenths = 333

\* ------------------------------------------------------------------------
\* Properties of the comparison view (SpecView)
\* ------------------------------------------------------------------------

\* the comparison has been rendered with at least one record
viewRendered == vContent.view \in {"table", "timeline"}

\* the profile of the response that a rendered row shows
shown(i) == vResponse[vContent.rows[i].id]

\* the delta a cell must show for a previous and a current value
expectedDelta(prevVal, val, metric, delta) ==
    IF prevVal.defined /\ val.defined
    THEN /\ delta.diff = val.n - prevVal.n
         /\ delta.class = classOf(val.n - prevVal.n, metric.lowerIsBetter)
    ELSE delta.text.kind = "dash"

\* the CPU totals of the rows are 1000000000, 1200000000, 900000000
exampleTotals ==
    /\ Len(vContent.rows) = 3
    /\ \A i \in 1..3 : "total_cpu_time_ns" \in DOMAIN shown(i).metrics
    /\ <<shown(1).metrics.total_cpu_time_ns.n, shown(2).metrics.total_cpu_time_ns.n,
         shown(3).metrics.total_cpu_time_ns.n>> = <<1000000000, 1200000000, 900000000>>

\* the deltas of the example: +200000000 (+20%, regressed), then
\* -300000000 (-25%, improved)
exampleDeltas ==
    LET d2 == vContent.rows[2].cells[1].delta
        d3 == vContent.rows[3].cells[1].delta
    IN  /\ d2.diff = 200000000 /\ d2.text.pct.tenths = 200 /\ d2.class = "delta-regressed"
        /\ d3.diff = -300000000 /\ d3.text.pct.tenths = -250 /\ d3.class = "delta-improved"

\* C3: the rows of the comparison view are the records of the response ordered
\* by created_at ascending whatever the order of the ids; the first row has no
\* delta, and every metric's delta of row i >= 2 is computed against row i-1.
\* CPU totals 1000000000, 1200000000, 900000000 give +200000000 (+20%,
\* regressed) then -300000000 (-25%, improved).
C3_DeltaAgainstPreceding ==
    viewRendered =>
        LET rows == vContent.rows
            metrics == getMetricsForType(ProfileTypeCPU)
        IN  /\ Len(rows) = Len(vResponse)
            /\ {rows[i].id : i \in DOMAIN rows} = DOMAIN vResponse
            /\ \A i, j \in DOMAIN rows : i < j => shown(i).created_at <= shown(j).created_at
            /\ \A k \in DOMAIN metrics : rows[1].cells[k].delta = NoDelta
            /\ \A i \in 2..Len(rows) : \A k \in DOMAIN metrics :
                   expectedDelta(getValue(metrics[k], shown(i - 1).metrics),
                                 getValue(metrics[k], shown(i).metrics),
                                 metrics[k], rows[i].cells[k].delta)
            /\ exampleTotals => exampleDeltas

\* the timeline shows the example's deltas for a response whose ids came in
\* another order than the capture times
C3_Witness ==
    /\ vContent.view = "timeline"
    /\ exampleTotals
    /\ exampleDeltas
    /\ vContent.rows[1].id = 3
    /\ vContent.rows[3].id = 1

\* ------------------------------------------------------------------------
\* Properties of k6.Parse (SpecK6)
\* ------------------------------------------------------------------------

\* k6.Parse has returned a record for the summary
k6Parsed == kOut # K6NotParsed /\ kOut.err = ""

\* the values of a metric of the summary parsed, empty when it has none
parsedValues(name) == valuesOf(kData.summary, name)

\* C5: whenever http_req_failed.rate is present ErrorRate equals it, and
\* FailedRequests equals http_req_failed.count, whatever checks contains;
\* whenever http_req_failed.rate is not present ErrorRate is derived from the
\* checks metric: checks.passes=90, checks.fails=10 gives 0.10, and
\* http_req_failed.rate=0.05 gives 0.05 even when checks is present.
C5_ErrorRatePrecedence ==
    k6Parsed =>
        LET failed == parsedValues("http_req_failed")
            checks == parsedValues("checks")
            m == kOut.Metrics
        IN  /\ isFloat64(failed, "rate") =>
                   /\ m.ErrorRate = failed["rate"].f
                   /\ isFloat64(failed, "count") => m.FailedRequests = toInt(failed["count"].f)
            /\ (~isFloat64(failed, "rate") /\ isFloat64(checks, "passes")
                    /\ isFloat64(checks, "fails")
                    /\ checks["passes"].f = Frac(90, 1) /\ checks["fails"].f = Frac(10, 1)) =>
                   m.ErrorRate = Frac(1, 10)
            /\ (~isFloat64(failed, "rate") /\ DOMAIN checks = {"rate"}
                    /\ isFloat64(checks, "rate")) =>
                   m.ErrorRate = Quotient(checks["rate"].f.den - checks["rate"].f.num,
                                          checks["rate"].f.den)

\* ------------------------------------------------------------------------
\* Sum of the contributor percentages (SpecParse)
\* ------------------------------------------------------------------------

\* the sum of the percentages of a contributor list, over their common
\* denominator (the total; 1 when every percentage is 0)
percentSum(entries) ==
    Frac(SumSeq([i \in 1..Len(entries) |-> entries[i].Percent.num]),
         IF Len(entries) = 0 THEN 1 ELSE entries[1].Percent.den)

\* C11: the percentages of the contributor list of a record sum to at most
\* 100, and to exactly 100 only if the list holds every attribution key
\* observed in the profile.
C11_PercentSumAtMost100 ==
    (run1.err = "" /\ run1.Type # ProfileTypeGoroutine) =>
        LET entries == Contributors(run1.Metrics)
            sum == percentSum(entries)
        IN  /\ \A i \in 1..Len(entries) : entries[i].Percent.den = sum.den
            /\ sum.num <= 100 * sum.den
            /\ sum.num = 100 * sum.den =>
                   Len(entries) = Len(discoveredKeys(buf.profile, run1.Type))

\* ------------------------------------------------------------------------
\* The checks fallback of k6.Parse (SpecK6)
\* ------------------------------------------------------------------------

\* 1 - rate, exactly
oneMinus(f) == Quotient(f.den - f.num, f.den)

\* fails / (passes + fails), exactly, for counts that are whole numbers
failShare(passes, fails) == Quotient(toInt(fails), toInt(passes) + toInt(fails))

\* C12: when the summary has no http_req_failed metric, the error rate comes
\* from checks: fails/(passes+fails) if passes and fails are both present
\* and passes+fails > 0; 1 - checks.rate if passes or fails is missing and
\* checks.rate is present.
C12_ChecksFallback ==
    (k6Parsed /\ "http_req_failed" \notin DOMAIN kData.summary.Metrics) =>
        LET checks == parsedValues("checks")
            both == isFloat64(checks, "passes") /\ isFloat64(checks, "fails")
        IN  /\ (both /\ toInt(checks["passes"].f) + toInt(checks["fails"].f) > 0) =>
                   kOut.Metrics.ErrorRate = failShare(checks["passes"].f, checks["fails"].f)
            /\ (~both /\ isFloat64(checks, "rate")) =>
                   kOut.Metrics.ErrorRate = oneMinus(checks["rate"].f)

\* ------------------------------------------------------------------------
\* Failure of k6.Parse (SpecK6)
\* ------------------------------------------------------------------------

\* C13: k6.Parse fails if and only if the input bytes are not well-formed
\* JSON; every well-formed document, whatever the types of its fields, yields
\* a record and no error.
C13_FailsOnlyOnMalformedJSON ==
    kOut # K6NotParsed =>
        /\ (kOut = K6ParseError) <=> ~kData.wellFormed
        /\ kData.wellFormed => kOut.err = ""

\* ------------------------------------------------------------------------
\* Too few ids in a comparison request (SpecCompare)
\* ------------------------------------------------------------------------

\* the positions of the ids parameter that are not blank after trimming
nonBlankPositions(ids) == {i \in 1..Len(ids) : ids[i] # BlankID}

\* C14: a comparison request whose ids parameter leaves fewer than 2
\* non-empty ids after splitting on commas and trimming is answered with an
\* error, never with a list of fewer than 2 records.
C14_FewerThanTwoIdsRejected ==
    (resp.op = "compare" /\ Cardinality(nonBlankPositions(resp.ids)) < 2) =>
        (resp.status # 200 /\ "profiles" \notin DOMAIN resp)

\* ------------------------------------------------------------------------
\* Absent metric values in the comparison view (SpecView)
\* ------------------------------------------------------------------------

\* the field of metric k is absent in the record of row i
fieldAbsent(i, metric) == metric.key \notin DOMAIN shown(i).metrics

\* the classes of a classified delta
DeltaClasses == {"delta-neutral", "delta-improved", "delta-regressed"}

\* C15: if a metric's field is absent in the previous or in the current
\* record of a pair, the delta of that metric for the pair is shown as no
\* data, without classification: never as zero/neutral, improved or regressed.
C15_AbsentValueNoData ==
    viewRendered =>
        LET metrics == getMetricsForType(ProfileTypeCPU)
        IN  \A i \in 2..Len(vContent.rows) : \A k \in DOMAIN metrics :
                (fieldAbsent(i - 1, metrics[k]) \/ fieldAbsent(i, metrics[k])) =>
                    LET delta == vContent.rows[i].cells[k].delta
                    IN  /\ delta.text.kind = "dash"
                        /\ delta.class \notin DeltaClasses
                        /\ "diff" \notin DOMAIN delta

\* a rendered pair whose previous record lacks the CPU total, the current
\* one has it, and the cell shows no data
C15_Witness ==
    /\ viewRendered
    /\ Len(vContent.rows) >= 2
    /\ fieldAbsent(1, getMetricsForType(ProfileTypeCPU)[1])
    /\ ~fieldAbsent(2, getMetricsForType(ProfileTypeCPU)[1])
    /\ vContent.rows[2].cells[1].delta.text.kind = "dash"
    /\ vContent.rows[2].cells[1].delta.class = ""

\* ------------------------------------------------------------------------
\* Identical records (SpecDelta)
\* ------------------------------------------------------------------------

\* calculateDelta has returned for a metric whose value is the same in the
\* previous and in the current record, or absent in both
sameInBoth == dOut # NotCalled /\ dOld = dNew

\* C16 as stated: for two identical records every metric of the kind's table
\* is classified neutral with delta 0.
C16_IdenticalAllNeutral ==
    sameInBoth =>
        /\ dOut.class = "delta-neutral"
        /\ "diff" \in DOMAIN dOut /\ dOut.diff = 0

\* C16 as amended: for two identical records every metric of the kind's
\* table whose field is present in them is classified neutral with delta 0;
\* a metric whose field is absent from them is shown as no data, without
\* classification.
C16_IdenticalNeutralWherePresent ==
    sameInBoth =>
        IF dOld.defined
        THEN dOut.class = "delta-neutral" /\ dOut.diff = 0 /\ dOut.text.kind = "zero"
        ELSE dOut.class = "" /\ dOut.text.kind = "dash" /\ "diff" \notin DOMAIN dOut

\* the alloc_size of two identical heap records, 2000 in both, has been
\* compared and found unchanged
C16_Witness ==
    /\ sameInBoth
    /\ dMetric.key = "alloc_size"
    /\ dOld = Number(2000)
    /\ dOut.class = "delta-neutral"
    /\ dOut.diff = 0

\* ------------------------------------------------------------------------
\* Missing value dimensions (SpecExtract)
\* ------------------------------------------------------------------------

\* the 0-based index of the value the attribution of a kind reads
indexRead(p, kind) ==
    CASE kind = ProfileTypeCPU -> 0
      [] kind = ProfileTypeHeap -> allocSpaceIndex(p)
      [] kind \in {ProfileTypeMutex, ProfileTypeBlock} -> 1
      [] OTHER -> -1

\* every sample of the profile has fewer values than the index read
allValuesMissing(p, kind) ==
    \A i \in 1..Len(p.Sample) : Len(p.Sample[i].Value) <= indexRead(p, kind)

\* the total a record of the four function-attributed kinds is ranked against
totalOf(m) ==
    CASE m.variant = ProfileTypeCPU -> m.TotalCPUTimeNS
      [] m.variant = ProfileTypeHeap -> m.AllocSize
      [] m.variant = ProfileTypeMutex -> m.ContentionTimeNS
      [] m.variant = ProfileTypeBlock -> m.BlockingTimeNS

CumulativeKinds == {ProfileTypeBlock, ProfileTypeMutex, ProfileTypeAllocs}

\* C18: a stored record is marked cumulative if and only if its ProfileKind
\* is block, mutex or allocs, also when it was ingested directly through
\* POST /api/pprof/ingest.
C18_CumulativeIffKind ==
    \A i \in 1..Len(store) :
        store[i].IsCumulative <=> store[i].ProfileType \in CumulativeKinds

\* ------------------------------------------------------------------------
\* The k6 ingest route (SpecServe)
\* ------------------------------------------------------------------------

\* the request served is a POST of a body to /api/k6/ingest
k6IngestRequested == req.method = "POST" /\ req.path = <<"api", "k6", "ingest">>

\* C19: the server of Server.Start serves POST /api/k6/ingest: a well-formed
\* k6 summary is handed to the k6 ingest handler, which stores exactly one
\* record of kind k6 and answers with its id; a body that does not parse
\* stores nothing and is answered with an error. (Unless SaveProfile fails,
\* which is answered with 500.)
C19_K6IngestServed ==
    [][k6IngestRequested' =>
          IF req'.body.json.wellFormed /\ req'.body.json.typed
          THEN \/ /\ resp'.status = 200
                  /\ Len(store') = Len(store) + 1
                  /\ SubSeq(store', 1, Len(store)) = store
                  /\ store'[Len(store')].ProfileType = ProfileTypeK6
                  /\ resp'.id = store'[Len(store')].ID
               \/ resp'.status = 500 /\ store' = store
          ELSE resp'.status = 400 /\ resp'.op = "k6 ingest" /\ store' = store]_vars


\* ------------------------------------------------------------------------
\* The rounds of runCapture (SpecCaptureFair)
\* ------------------------------------------------------------------------

\* runCapture has returned
returned == pc = "done"

\* a call of captureRound after the first one is made on taking a tick
calledOnTick ==
    roundsCalled' > roundsCalled /\ roundsCalled >= 1 => tickerC /\ ~tickerC'

\* C20: runCapture with Interval > 0 and Count = N > 0, when not cancelled,
\* performs exactly N capture rounds, the first without a tick and each
\* following one on a tick, and then returns; with Count = 0 it returns only
\* when cancelled, goes on capturing while it is not, and returns once it is;
\* with Interval = 0 it performs exactly one round and returns.
C20_RoundsOfRunCapture ==
    /\ [](cmd.Interval > 0 /\ cmd.Count > 0 => roundsCalled <= cmd.Count)
    /\ [](cmd.Interval > 0 /\ cmd.Count > 0 /\ returned /\ ~ctxDone =>
              roundsCalled = cmd.Count /\ roundsCompleted = cmd.Count)
    /\ [](pc = "first" => roundsCalled = 1 /\ round = 1)
    /\ [][calledOnTick]_vars
    /\ (cmd.Interval > 0 /\ cmd.Count > 0 /\ []~ctxDone) => <>returned
    /\ [](cmd.Interval > 0 /\ cmd.Count = 0 /\ returned => ctxDone)
    /\ (cmd.Interval > 0 /\ cmd.Count = 0 /\ []~ctxDone) => <>(roundsCompleted = MaxRounds)
    /\ (cmd.Interval > 0 /\ cmd.Count = 0) => (ctxDone ~> returned)
    /\ [](cmd.Interval = 0 => roundsCalled <= 1)
    /\ [](cmd.Interval = 0 /\ returned => roundsCalled = 1)
    /\ (cmd.Interval = 0) => <>returned

\* a run with --count 2 that was not cancelled has returned after two rounds
C20_Witness ==
    /\ cmd.Interval > 0
    /\ cmd.Count = MaxCount
    /\ returned
    /\ ~ctxDone
    /\ roundsCompleted = MaxCount


\* ------------------------------------------------------------------------
\* Tags of records ingested in parallel (SpecTags)
\* ------------------------------------------------------------------------

KnownMetrics == {"http_req_duration", "http_reqs", "vus", "vus_max", "http_req_failed", "checks"}

\* the document without the metrics k6.Parse does not know
withoutUnknown(data) ==
    SummaryJSON([name \in DOMAIN data.summary.Metrics \cap KnownMetrics |->
                    data.summary.Metrics[name]],
                data.summary.Root.Duration)

\* the number the document holds for a sub-field of a metric: its place is
\* the metric's values map, and it is there when the map has a number for it
hasNumber(metric, key) ==
    /\ metric \in DOMAIN kData.summary.Metrics
    /\ ~kData.summary.Metrics[metric].nilValues
    /\ key \in DOMAIN kData.summary.Metrics[metric].Values
    /\ kData.summary.Metrics[metric].Values[key].isNumber

numberAt(metric, key) == kData.summary.Metrics[metric].Values[key].f

\* a float field holds its number, or zero when the document has none
floatFieldFramed(field, metric, key) ==
    kOut.Metrics[field] = IF hasNumber(metric, key) THEN numberAt(metric, key) ELSE [num |-> 0, den |-> 1]

\* an integer field holds its number truncated, or zero
intFieldFramed(field, metric, key) ==
    kOut.Metrics[field] =
        IF hasNumber(metric, key)
        THEN numberAt(metric, key).num \div numberAt(metric, key).den
        ELSE 0

\* C22: k6 Parse leaves a latency, throughput or concurrency field at its
\* zero value whenever the metric or sub-field it is read from is absent or
\* not a number, whatever the other metrics are, and unknown metrics change
\* no field.
C22_AbsentMetricsLeaveZero ==
    k6Parsed /\ kOut.err = "" =>
        /\ floatFieldFramed("P50", "http_req_duration", "p(50)")
        /\ floatFieldFramed("P95", "http_req_duration", "p(95)")
        /\ floatFieldFramed("P99", "http_req_duration", "p(99)")
        /\ floatFieldFramed("Min", "http_req_duration", "min")
        /\ floatFieldFramed("Max", "http_req_duration", "max")
        /\ floatFieldFramed("Mean", "http_req_duration", "avg")
        /\ floatFieldFramed("RPS", "http_reqs", "rate")
        /\ intFieldFramed("TotalRequests", "http_reqs", "count")
        /\ intFieldFramed("VUs", "vus", "value")
        /\ intFieldFramed("VUsMax", "vus_max", "value")
        /\ kOut = K6Parse(withoutUnknown(kData))

\* a parsed summary with an unknown metric, a percentile that is a number,
\* one that is a string and one that is absent
C22_Witness ==
    /\ k6Parsed
    /\ kOut.err = ""
    /\ DOMAIN kData.summary.Metrics \ KnownMetrics # {}
    /\ hasNumber("http_req_duration", "p(50)")
    /\ "p(95)" \notin DOMAIN kData.summary.Metrics["http_req_duration"].Values
    /\ "max" \in DOMAIN kData.summary.Metrics["http_req_duration"].Values
    /\ ~hasNumber("http_req_duration", "max")
    /\ kOut.Metrics.P50 # FracZero


\* ------------------------------------------------------------------------
\* The default of detectProfileType (SpecParse)
\* ------------------------------------------------------------------------

\* C23: detectProfileType returns CPU whenever no sample-type descriptor
\* matches any kind's signature: for an empty descriptor list and for
\* descriptors of type cpu or samples whose unit is neither nanoseconds nor
\* count alike.
C23_DefaultsToCPU ==
    (run1.err = "" /\ \A i \in 1..Len(buf.profile.SampleType) :
                          ~anyKindMatches(buf.profile.SampleType[i]))
        => run1.Type = ProfileTypeCPU

\* a profile whose descriptors are cpu in bytes and threadcreate has been
\* classified
C23_Witness ==
    /\ run1.err = ""
    /\ buf.profile.SampleType = <<ValueType("cpu", "bytes"), ValueType("threadcreate", "count")>>
    /\ run1.Type = ProfileTypeCPU


\* ------------------------------------------------------------------------
\* The percent of topFunctions (SpecTop)
\* ------------------------------------------------------------------------

\* C24: each entry of the result of topFunctions has percent
\* value / total * 100 when total > 0 and percent 0 otherwise, so with a
\* total of 0 every entry has percent 0 and nothing is divided by zero.
C24_PercentOfTotal ==
    tfCalled =>
        \A i \in 1..Len(tfOut) :
            /\ tfOut[i].Percent.den # 0
            /\ IF tfTotal > 0
               THEN tfOut[i].Percent.num * tfTotal = tfOut[i].Value * 100 * tfOut[i].Percent.den
               ELSE tfOut[i].Percent.num = 0

\* two entries of positive values next to a total of 0
C24_Witness ==
    /\ tfCalled
    /\ tfTotal = 0
    /\ Len(tfOut) = 2
    /\ tfOut[1].Value = 2
    /\ tfOut[2].Value = 1
    /\ tfOut[1].Percent.num = 0


\* ------------------------------------------------------------------------
\* Attribution of the CPU, heap, mutex and block extractors (SpecParse)
\* ------------------------------------------------------------------------

\* the column (0-based) an extractor attributes: index 0 for CPU, the
\* alloc_space column for heap (none when there is no such descriptor),
\* index 1 for mutex and block
attributedColumn(kind, sts) ==
    CASE kind = ProfileTypeCPU -> 0
      [] kind = ProfileTypeHeap ->
            IF \E i \in 1..Len(sts) : sts[i].Type = "alloc_space"
            THEN (CHOOSE i \in 1..Len(sts) :
                      /\ sts[i].Type = "alloc_space"
                      /\ \A j \in (i + 1)..Len(sts) : sts[j].Type # "alloc_space") - 1
            ELSE -1
      [] OTHER -> 1

\* the value of a sample in a column, 0 when the sample has none there
valueIn(sample, column) ==
    IF column >= 0 /\ column < Len(sample.Value) THEN sample.Value[column + 1] ELSE 0

\* the number of (location, line) occurrences of a function in a stack
occurrences(f, sample) ==
    SumSeq([i \in 1..Len(sample.Location) |->
        Cardinality({j \in 1..Len(sample.Location[i].Line) :
                        /\ sample.Location[i].Line[j].Function # NilFunction
                        /\ sample.Location[i].Line[j].Function.Name = f})])

\* the sum over all samples of value times occurrences
attributedTotal(f, p, kind) ==
    SumSeq([i \in 1..Len(p.Sample) |->
        valueIn(p.Sample[i], attributedColumn(kind, p.SampleType)) * occurrences(f, p.Sample[i])])

attributingKinds == {ProfileTypeCPU, ProfileTypeHeap, ProfileTypeMutex, ProfileTypeBlock}

\* C25: in a record of the CPU, heap, mutex or block extractor the total of
\* a function equals the sum, over all samples, of the sample's attributed
\* value multiplied by the number of occurrences of the function in the
\* sample's stack: a function that stands k times in a stack is credited k
\* times.
C25_CreditedPerOccurrence ==
    (run1.err = "" /\ run1.Type \in attributingKinds) =>
        /\ \A i \in DOMAIN Contributors(run1.Metrics) :
               Contributors(run1.Metrics)[i].Value =
                   attributedTotal(Contributors(run1.Metrics)[i].Name, buf.profile, run1.Type)
        /\ \A f \in {NameF, NameG} :
               attributedTotal(f, buf.profile, run1.Type) # 0 =>
                   \E i \in DOMAIN Contributors(run1.Metrics) : Contributors(run1.Metrics)[i].Name = f

\* a CPU record of one sample of value 1 whose stack is f called by f
\* credits f with 2
C25_Witness ==
    /\ run1.err = ""
    /\ run1.Type = ProfileTypeCPU
    /\ Len(buf.profile.Sample) = 1
    /\ occurrences(NameF, buf.profile.Sample[1]) = 2
    /\ buf.profile.Sample[1].Value[1] = 1
    /\ Len(run1.Metrics.TopFunctions) = 1
    /\ run1.Metrics.TopFunctions[1].Value = 2


\* ------------------------------------------------------------------------
\* The stacks of a goroutine record (SpecGoroutine)
\* ------------------------------------------------------------------------

\* the samples whose ordered function-name stack is the given list
samplesWithStack(p, stack) == {i \in 1..Len(p.Sample) : StackNames(p.Sample[i]) = stack}

\* C26: in the record of extractGoroutineMetrics GoroutineCount is the
\* number of samples; the TopStacks entries are pairwise distinct stacks, at
\* most 10, ordered by count non-increasing; each entry's Stack is the
\* ordered list of function names of a sample's call stack and its Count is
\* the number of samples with exactly that stack.
C26_StacksCountedExactly ==
    (exOut # NotExtracted /\ exOut.variant = ProfileTypeGoroutine) =>
        /\ exOut.GoroutineCount = Len(exProfile.Sample)
        /\ Len(exOut.TopStacks) <= 10
        /\ \A i, j \in 1..Len(exOut.TopStacks) :
               i < j => /\ exOut.TopStacks[i].Stack # exOut.TopStacks[j].Stack
                        /\ exOut.TopStacks[i].Count >= exOut.TopStacks[j].Count
        /\ \A i \in 1..Len(exOut.TopStacks) :
               /\ samplesWithStack(exProfile, exOut.TopStacks[i].Stack) # {}
               /\ exOut.TopStacks[i].Count =
                      Cardinality(samplesWithStack(exProfile, exOut.TopStacks[i].Stack))


\* ------------------------------------------------------------------------
\* The comparison table of every kind (SpecViewKinds)
\* ------------------------------------------------------------------------

\* the kind of the records the view compares
comparedKind == vResponse[1].profile_type

\* C27: for every kind of the enumeration getMetricsForType returns a
\* non-empty list of metrics, each with a key to read the value by, a
\* formatter and a lowerIsBetter flag, so the comparison of records of any
\* kind shows at least one metric for every record.
C27_EveryKindHasMetrics ==
    viewRendered =>
        /\ comparedKind \in ProfileKinds
        /\ Len(getMetricsForType(comparedKind)) >= 1
        /\ \A k \in DOMAIN getMetricsForType(comparedKind) :
               {"key", "format", "lowerIsBetter"} \subseteq DOMAIN getMetricsForType(comparedKind)[k]
        /\ \A i \in DOMAIN vContent.rows : Len(vContent.rows[i].cells) >= 1


\* ------------------------------------------------------------------------
\* Same-kind comparison requests (SpecCompare)
\* ------------------------------------------------------------------------

\* the non-blank ids of a request, in their order
RECURSIVE nonBlankIds(_)
nonBlankIds(ids) ==
    IF ids = <<>> THEN <<>>
    ELSE IF Head(ids) = BlankID THEN nonBlankIds(Tail(ids))
    ELSE <<Head(ids)>> \o nonBlankIds(Tail(ids))

\* at least 2 non-blank ids, all of stored records of one kind
validSameKind(table, ids) ==
    /\ Len(nonBlankIds(ids)) >= 2
    /\ \A i \in 1..Len(nonBlankIds(ids)) : HasProfile(table, nonBlankIds(ids)[i])
    /\ \A i, j \in 1..Len(nonBlankIds(ids)) :
           GetProfile(table, nonBlankIds(ids)[i]).ProfileType =
               GetProfile(table, nonBlankIds(ids)[j]).ProfileType

\* C28: a comparison request whose non-empty ids are at least 2 and all
\* resolve to stored records of one kind succeeds, wherever empty entries
\* stand in the list, and returns exactly those records in the order of the
\* ids, without their raw data.
C28_SameKindAccepted ==
    (resp.op = "compare" /\ validSameKind(store, resp.ids)) =>
        /\ resp.status = 200
        /\ resp.profiles =
               [i \in 1..Len(nonBlankIds(resp.ids)) |->
                   [GetProfile(store, nonBlankIds(resp.ids)[i]) EXCEPT !.RawData = NoRawData]]


\* ------------------------------------------------------------------------
\* The selection of profiles to compare (SpecSelect)
\* ------------------------------------------------------------------------

\* the ids of the selected profiles
selected == DOMAIN selection.profiles

captureReturned == Len(results') = Len(results) + 1

\* the capture that has just returned ended with an error
lastFailed == results'[Len(results')] = "error"

\* nothing is captured and no round is started once runCapture has returned
stopped == returned => UNCHANGED <<pc, results, roundsCalled, roundsCompleted>>

\* C30: in runCapture every CaptureAndSend call starts only after a check
\* that found the context not cancelled; once the cancellation has been
\* observed the remaining profile types of the round are skipped, no further
\* round is started, and runCapture eventually returns after a cancellation
\* in single mode, with a count and without one; a capture error does not
\* stop the round, the following profile types are still captured.
C30_CancelledRunCapture ==
    /\ [](step = "call" => liveAtCheck /\ inCaptureRound)
    /\ [][captureReturned => step = "call" /\ liveAtCheck]_vars
    /\ [](observed => returned /\ ctxDone)
    /\ [][stopped]_vars
    /\ ctxDone ~> returned
    /\ [][captureReturned /\ lastFailed => pc' = pc /\ pt' = pt + 1]_vars
    /\ [](pc = "select" => Len(results) = profilesOf(cmd))
    /\ \A k \in 1..(MaxTypes - 1) :
           (/\ inCaptureRound
            /\ Len(results) = k
            /\ results[k] = "error"
            /\ k < profilesOf(cmd))
               ~> (ctxDone \/ Len(results) = k + 1)

\* a run without a count was cancelled in a round of three profile types
\* after the first capture failed and the second succeeded: the third type
\* was skipped and runCapture has returned
C30_Witness ==
    /\ cmd.Interval > 0
    /\ cmd.Count = 0
    /\ profilesOf(cmd) = MaxTypes
    /\ observed
    /\ returned
    /\ roundsCalled = 2
    /\ results = <<"error", "ok">>

====
